---- MODULE Spec2Model ----
(***************************************************************************)
(* Order synchronisation and arrival/expiry engine of the cafe order       *)
(* display: staff controllers (app/controller/page.tsx) and customer       *)
(* displays (app/display/page.tsx) of one room, synchronised through the   *)
(* remote real-time store.                                                 *)
(*                                                                         *)
(* The remote store is the room's data (baseOrders, baseTTL) followed by   *)
(* the log of the writes that some open client has not received yet.       *)
(* Every client reads the log in order through a cursor: an entry written  *)
(* by another client is delivered to the client's listeners, an entry      *)
(* written by the client itself resolves the promise of that write.  A     *)
(* client's own write is visible in its own cache, and raises its own      *)
(* listeners, as soon as it is issued.  Entries every open client has      *)
(* received are folded into the room's data.                               *)
(***************************************************************************)
EXTENDS Integers, Sequences, FiniteSets, TLC

\* ------------------------------------------------------------------ bounds
\* orders pushed in one run
MaxIds == 3
\* writes of the store's log not yet received by every open client
MaxLog == 2
\* clock steps in one run
MaxTicks == 1
\* rejected writes of one controller whose promise is pending
MaxFailing == 1
\* limitToLast(10) of the controller's orders query, scaled down
RecentLimit == 1
\* limitToLast(50) of the display's child-added query, scaled down
ChildWindow == 1
\* the local clock of a client runs this far ahead of the server's (ms)
SkewMs == 1000
\* calls of kickHighlight for one order, and sounds started, that are counted
MaxKicks == 2
\* calls of remove() for one order by the display that are counted
MaxRemoves == 2
\* orders pushed in one run of a controller while the clock runs
CreateIds == 2
\* orders pushed in one run of a controller that deletes and restores
UndoIds == 2
\* orders pushed in one run of two controllers
PairIds == 1
\* orders pushed in one run of a controller and a display
DisplayIds == 2
\* orders pushed in one run of a controller and a reaping display
ReaperIds == 2
\* orders pushed in one run of a controller and a display whose removes fail
ExpiryIds == 1
\* orders pushed in one run of a controller and a display whose clock runs
HighlightIds == 1
\* the last key pushed in one run of a controller of a room that holds an order
RecommendIds == 2
\* orders pushed in one run of a controller that loses its connection
OfflineIds == 2
\* orders pushed in one run of a controller whose form is given any input
SchemaIds == 2
\* orders pushed in one run of a controller and a display whose sound is used
SoundIds == 2
\* one step of the clock between two runs of the highlight interval (ms)
StepMs == 500
\* the clock runs this far while the highlight interval is followed (ms)
HighlightSpan == 7000

\* orders pushed in one run in which the ordering of the clients' lists is
\* followed
SortIds == 2

\* orders pushed in one run in which the display's list is compared with the
\* store
SyncIds == 2

\* orders pushed in one run in which test data is added to the room
TestIds == 2

\* orders pushed in one run of two controllers submitting side by side
RaceIds == 2

\* orders pushed in one run in which the display and a controller delete the
\* same order
DupIds == 2

\* orders pushed in one run in which the display's highlight and sound state
\* is followed together
LocalIds == 1

\* orders pushed in one run in which the display page is closed and opened
CloseIds == 2

\* orders pushed in the runs of the room change
SwitchIds == 2

\* orders pushed in the runs with orders that carry no expiry
PlainIds == 2

\* ------------------------------------------------------- program constants
DefaultTTL == 300000
MsPerMinute == 60 * 1000
TTL_OPTIONS == {3, 5}
MaxDigits == 6
RecommendCap == 999
\* one clock step (ms)
TickMs == 300000

Controllers == {"c1", "c2"}
Display == "d1"
\* the readers of the store's log: each controller, and each of the display's
\* two orders subscriptions (onValue, onChildAdded)
Readers == Controllers \cup {"value", "child"}
ReadersOf(client) == IF client = Display THEN {"value", "child"} ELSE {client}
HighlightMs == 5000
\* the period of the highlight interval (ms)
SweepMs == 1000

\* the form inputs tried: strings of digits
FormInputs == {<<7>>, <<0, 7>>}

\* an absent field of a stored order, an absent config/ttl
Undefined == -1
Null == [number |-> Undefined, createdAt |-> Undefined, expiresAt |-> Undefined,
         status |-> "null"]
NoData == Null

VARIABLES
  baseOrders,         \* rooms/{roomId}/orders before the writes of log
  baseTTL,            \* rooms/{roomId}/config/ttl before the writes of log
  log,                \* the writes applied that some open client has not received
  nextId,             \* the key of the next push()
  now,                \* the server's clock (ms)
  mounted,            \* the clients whose page is open
  cursor,             \* per reader: entries of the log it has received
  loaded,             \* per client: the listeners that have fired once
  failing,            \* per controller: rejected writes whose promise is pending
  isConnected,        \* per controller: ControllerContent state, .info/connected
  recentLimit,        \* the n of limitToLast(n) of the controllers' orders query
  tree,               \* the database as paths: the nodes written under rooms/
  displayRoomId,      \* the room parameter of the open display page
  outbox,             \* per controller: the writes issued while it was offline
  isSubmitting,       \* ControllerContent state
  recentOrders,
  lastDeletedOrder,
  serverTimeOffset,
  recommendedNumbers,
  currentTTL,
  dialogSubmitting,   \* TTLSettingsDialog state isSubmitting
  showTTLDialog,      \* per controller: ControllerContent state showTTLDialog
  toast,              \* per controller: the last toast shown
  orders,             \* DisplayContent state
  newOrderIds,
  initialAddedDoneRef,
  kickCount,          \* per order id: the calls of kickHighlight so far
  subscribedAt,       \* the next push key when the display subscribed
  latchedAt,          \* the next push key when initialAddedDoneRef was set
  reaperFailing,      \* the keys whose remove() by the display was rejected
  removeCalls,        \* per order id: the calls of remove() by the display so far
  isSoundEnabled,
  savedSoundSetting,  \* localStorage item "cafeDisplaySoundEnabled"
  isPlayingRef,       \* useSound
  cues,               \* the sounds started so far
  sweepAt             \* when the highlight interval fires next (server clock)

vars == <<baseOrders, baseTTL, log, nextId, now, mounted, cursor, loaded, failing,
          isConnected, recentLimit, tree, displayRoomId, outbox, isSubmitting,
          recentOrders, lastDeletedOrder, serverTimeOffset, recommendedNumbers,
          currentTTL, dialogSubmitting, showTTLDialog, toast, orders, newOrderIds,
          initialAddedDoneRef, kickCount, subscribedAt, latchedAt,
          reaperFailing, removeCalls, isSoundEnabled, savedSoundSetting, isPlayingRef, cues,
          sweepAt>>

storeVars == <<baseOrders, baseTTL, log, nextId>>
controllerVars == <<failing, outbox, isSubmitting, recentOrders, lastDeletedOrder,
                    serverTimeOffset, recommendedNumbers, currentTTL,
                    dialogSubmitting, showTTLDialog, toast>>
reaperVars == <<reaperFailing, removeCalls>>
soundVars == <<isSoundEnabled, savedSoundSetting>>
audioVars == <<isPlayingRef, cues>>
timerVars == <<sweepAt>>
displayVars == <<orders, newOrderIds, initialAddedDoneRef, kickCount,
                 subscribedAt, latchedAt, reaperVars, soundVars, audioVars,
                 timerVars>>

\* ------------------------------------------------------------ remote store
Positions(l) == 1..Len(l)

AddEntry(c, via, id, data) ==
  [op |-> "add", by |-> c, via |-> via, id |-> id, data |-> data,
   ttl |-> Undefined]

DelEntry(c, via, id) ==
  [op |-> "del", by |-> c, via |-> via, id |-> id, data |-> NoData,
   ttl |-> Undefined]

TTLEntry(c, via, ttl) ==
  [op |-> "ttl", by |-> c, via |-> via, id |-> 0, data |-> NoData,
   ttl |-> ttl]

\* The entries of l that client c has in its cache at cursor k: what the
\* store has sent it, and its own writes.
Visible(l, c, k) == {p \in Positions(l) : p <= k \/ l[p].by = c}

Stored(e) == [id |-> e.id, number |-> e.data.number, createdAt |-> e.data.createdAt,
              expiresAt |-> e.data.expiresAt, status |-> e.data.status]

\* rooms/{roomId}/orders as client c sees it at cursor k of l
CacheOrders(l, c, k) ==
  LET seen == Visible(l, c, k)
      added == baseOrders \cup {Stored(l[p]) : p \in {q \in seen : l[q].op = "add"}}
  IN {o \in added : ~\E d \in seen : l[d].op = "del" /\ l[d].id = o.id}

\* rooms/{roomId}/config/ttl as client c sees it at cursor k of l
CacheTTL(l, c, k) ==
  LET w == {p \in Visible(l, c, k) : l[p].op = "ttl"}
  IN IF w = {} THEN baseTTL
     ELSE l[CHOOSE p \in w : \A q \in w : q <= p].ttl

\* the store itself: everything applied
RemoteOrders == CacheOrders(log, "store", Len(log))
RemoteTTL == CacheTTL(log, "store", Len(log))

\* query(ref, limitToLast(n)): the n greatest keys
LimitToLast(S, n) == {o \in S : Cardinality({p \in S : p.id > o.id}) < n}

\* ------------------------------------------------------------- conversions
\* Order of the controller's orders callback: a stored child with the absent
\* fields defaulted (number || 0, Number(createdAt) || 0,
\* expiresAt ? .. : undefined, status || "ready"); an absent status is ""
ToOrder(o) ==
  [id |-> o.id,
   number |-> IF o.number = Undefined THEN 0 ELSE o.number,
   createdAt |-> IF o.createdAt = Undefined THEN 0 ELSE o.createdAt,
   expiresAt |-> IF o.expiresAt = Undefined \/ o.expiresAt = 0 THEN Undefined
                 ELSE o.expiresAt,
   status |-> IF o.status = "" THEN "ready" ELSE o.status]

\* the display's type guard of a stored status
isValidOrderStatus(status) == status \in {"ready", "done", "removed"}

\* Order of the display's orders callback: as the controller's, but with every
\* status the type guard does not accept replaced by "ready"
ToDisplayOrder(o) ==
  [id |-> o.id,
   number |-> IF o.number = Undefined THEN 0 ELSE o.number,
   createdAt |-> IF o.createdAt = Undefined THEN 0 ELSE o.createdAt,
   expiresAt |-> IF o.expiresAt = Undefined \/ o.expiresAt = 0 THEN Undefined
                 ELSE o.expiresAt,
   status |-> IF isValidOrderStatus(o.status) THEN o.status ELSE "ready"]

\* orderList.sort((a, b) => b.createdAt - a.createdAt) of the controller and,
\* with the tie broken by number, of the display: a sorts before b
SortsBefore(a, b, byNumber) ==
  \/ a.createdAt > b.createdAt
  \/ byNumber /\ a.createdAt = b.createdAt /\ a.number > b.number

\* Array.prototype.sort: stable, and the children arrive in key order
RECURSIVE SortOrders(_, _)
SortOrders(S, byNumber) ==
  IF S = {} THEN <<>>
  ELSE LET first == CHOOSE a \in S : \A b \in S \ {a} :
                      \/ SortsBefore(a, b, byNumber)
                      \/ ~SortsBefore(b, a, byNumber) /\ a.id < b.id
       IN <<first>> \o SortOrders(S \ {first}, byNumber)

\* the controller's orders callback: the last RecentLimit children, converted
\* and sorted
RecentOrdersOf(l, c, k) ==
  SortOrders({ToOrder(o) : o \in LimitToLast(CacheOrders(l, c, k), recentLimit)},
             FALSE)

\* calculateRecommendedNumbers without the filter
calculateRecommendedNumbersUncapped(orderList) ==
  IF Len(orderList) = 0 THEN <<>>
  ELSE <<orderList[1].number + 1, orderList[1].number + 2,
         orderList[1].number + 3>>

calculateRecommendedNumbers(orderList) ==
  IF Len(orderList) = 0 THEN <<>>
  ELSE LET lastOrderNumber == orderList[1].number
           recommended == <<lastOrderNumber + 1, lastOrderNumber + 2,
                            lastOrderNumber + 3>>
       IN SelectSeq(recommended, LAMBDA num : num <= RecommendCap)

\* orderNumberSchema: a string of 1 to 6 characters, digits only
orderNumberSchema(input) ==
  /\ Len(input) >= 1
  /\ Len(input) <= MaxDigits
  /\ \A i \in 1..Len(input) : input[i] \in 0..9

\* Number(data.orderNumber)
RECURSIVE ToNumber(_)
ToNumber(input) ==
  IF input = <<>> THEN 0
  ELSE 10 * ToNumber(SubSeq(input, 1, Len(input) - 1)) + input[Len(input)]

\* Math.round(a / b) for a >= 0, b > 0
Round(a, b) == (2 * a + b) \div (2 * b)

\* Date.now() on a client
LocalSkew(c) == IF c = "c1" THEN SkewMs ELSE IF c = Display THEN 2 * SkewMs ELSE 0
DateNow(c) == now + LocalSkew(c)

\* getServerTime without the offset
getServerTimeLocal(c) == DateNow(c)

getServerTime(c) == DateNow(c) + serverTimeOffset[c]

\* the duplicate check left out
isDuplicateUnchecked(c, number) == FALSE

\* the duplicate check made against the room's collection
isDuplicateInStore(c, number) == \E o \in RemoteOrders : o.number = number

isDuplicate(c, number) ==
  \E i \in 1..Len(recentOrders[c]) : recentOrders[c][i].number = number

\* ---------------------------------------------------------------- writes
\* the controller's orders callback, run on the cache at cursor k of l
OrdersListener(c, l, k) ==
  IF "orders" \in loaded[c]
  THEN /\ recentOrders' = [recentOrders EXCEPT ![c] = RecentOrdersOf(l, c, k)]
       /\ recommendedNumbers' = [recommendedNumbers EXCEPT ![c] =
            calculateRecommendedNumbers(RecentOrdersOf(l, c, k))]
  ELSE UNCHANGED <<recentOrders, recommendedNumbers>>

\* A write the store accepts: it is applied to the room.
Accepted(c, entry) ==
  /\ isConnected[c]
  /\ Len(log) < MaxLog
  /\ entry.op = "add" => nextId <= MaxIds
  /\ log' = Append(log, entry)
  /\ nextId' = IF entry.op = "add" THEN nextId + 1 ELSE nextId
  /\ UNCHANGED <<failing, outbox>>

\* A write the store rejects: nothing is applied, the promise rejects later.
Rejected(c, via) ==
  /\ isConnected[c]
  /\ Len(failing[c]) < MaxFailing
  /\ failing' = [failing EXCEPT ![c] = Append(@, via)]
  /\ UNCHANGED <<log, nextId, outbox>>

\* A write issued while the client is offline: it is applied to the client's
\* cache and kept until the connection is back; its promise stays pending.
Queued(c, entry) ==
  /\ ~isConnected[c]
  /\ Len(outbox[c]) < MaxLog
  /\ entry.op = "add" => nextId <= MaxIds
  /\ outbox' = [outbox EXCEPT ![c] = Append(@, entry)]
  /\ nextId' = IF entry.op = "add" THEN nextId + 1 ELSE nextId
  /\ UNCHANGED <<log, failing>>

\* push(ordersRef, data) / remove(orderRef) by controller c: an accepted write
\* raises the writer's own orders listener at once
OrderWrite(c, entry) ==
  \/ Accepted(c, entry) /\ OrdersListener(c, Append(log, entry), cursor[c])
  \/ Rejected(c, entry.via) /\ UNCHANGED <<recentOrders, recommendedNumbers>>
  \/ Queued(c, entry)
       /\ OrdersListener(c, log \o Append(outbox[c], entry), cursor[c])

\* --------------------------------------------------------------- controller
\* the controller page opens: its listeners subscribe to the store as it is
Mount(c) ==
  /\ c \notin mounted
  /\ mounted' = mounted \cup {c}
  /\ cursor' = [cursor EXCEPT ![c] = Len(log)]
  /\ UNCHANGED <<storeVars, now, isConnected, recentLimit, displayRoomId, tree, loaded, controllerVars, displayVars>>

\* .info/serverTimeOffset callback: snapshot.val() || 0
OffsetCallback(c) ==
  /\ c \in mounted
  /\ isConnected[c]
  /\ serverTimeOffset[c] # 0 - LocalSkew(c)
  /\ serverTimeOffset' = [serverTimeOffset EXCEPT ![c] = 0 - LocalSkew(c)]
  /\ UNCHANGED <<storeVars, now, isConnected, recentLimit, displayRoomId, tree, mounted, cursor, loaded, failing, outbox, isSubmitting,
                 recentOrders, lastDeletedOrder, recommendedNumbers, currentTTL,
                 dialogSubmitting, showTTLDialog, toast, displayVars>>

\* first callback of the orders subscription
OrdersLoaded(c) ==
  /\ c \in mounted
  /\ isConnected[c]
  /\ "orders" \notin loaded[c]
  /\ loaded' = [loaded EXCEPT ![c] = @ \cup {"orders"}]
  /\ recentOrders' = [recentOrders EXCEPT ![c] = RecentOrdersOf(log, c, cursor[c])]
  /\ recommendedNumbers' = [recommendedNumbers EXCEPT ![c] =
       calculateRecommendedNumbers(RecentOrdersOf(log, c, cursor[c]))]
  /\ UNCHANGED <<storeVars, now, isConnected, recentLimit, displayRoomId, tree, mounted, cursor, failing, outbox, isSubmitting,
                 lastDeletedOrder, serverTimeOffset, currentTTL,
                 dialogSubmitting, showTTLDialog, toast, displayVars>>

\* TTLLoaded with a stored value left unread
TTLLoadedUnread(c) ==
  /\ c \in mounted
  /\ isConnected[c]
  /\ "ttl" \notin loaded[c]
  /\ loaded' = [loaded EXCEPT ![c] = @ \cup {"ttl"}]
  /\ IF CacheTTL(log, c, cursor[c]) # Undefined
     THEN UNCHANGED <<currentTTL, log, nextId, failing, outbox>>
     ELSE /\ currentTTL' = [currentTTL EXCEPT ![c] = DefaultTTL]
          /\ \/ Accepted(c, TTLEntry(c, "defaultTTL", DefaultTTL))
             \/ Rejected(c, "defaultTTL")
  /\ UNCHANGED <<baseOrders, baseTTL, now, isConnected, recentLimit, displayRoomId, tree, mounted, cursor, isSubmitting,
                 recentOrders, lastDeletedOrder, serverTimeOffset,
                 recommendedNumbers, dialogSubmitting, showTTLDialog, toast, displayVars>>

\* first callback of the config/ttl subscription: adopt the stored value, or
\* adopt and write the default
TTLLoaded(c) ==
  /\ c \in mounted
  /\ isConnected[c]
  /\ "ttl" \notin loaded[c]
  /\ loaded' = [loaded EXCEPT ![c] = @ \cup {"ttl"}]
  /\ LET ttlValue == CacheTTL(log, c, cursor[c])
     IN IF ttlValue # Undefined
        THEN /\ currentTTL' = [currentTTL EXCEPT ![c] = ttlValue]
             /\ UNCHANGED <<log, nextId, failing, outbox>>
        ELSE /\ currentTTL' = [currentTTL EXCEPT ![c] = DefaultTTL]
             /\ \/ Accepted(c, TTLEntry(c, "defaultTTL", DefaultTTL))
                \/ Rejected(c, "defaultTTL")
  /\ UNCHANGED <<baseOrders, baseTTL, now, isConnected, recentLimit, displayRoomId, tree, mounted, cursor, isSubmitting,
                 recentOrders, lastDeletedOrder, serverTimeOffset,
                 recommendedNumbers, dialogSubmitting, showTTLDialog, toast, displayVars>>

\* the body shared by onSubmit and handleSelectRecommendedNumber after the
\* in-flight guard: the duplicate check, then the push
createOrder(c, via, number) ==
  IF isDuplicate(c, number)
  THEN /\ toast' = [toast EXCEPT ![c] = "duplicate"]
       /\ UNCHANGED <<log, nextId, failing, outbox, isSubmitting, recentOrders,
                      recommendedNumbers>>
  ELSE LET currentTime == getServerTime(c)
           expiresAt == currentTime + currentTTL[c]
           newOrder == [number |-> number, status |-> "ready",
                        createdAt |-> currentTime, expiresAt |-> expiresAt]
       IN /\ isSubmitting' = [isSubmitting EXCEPT ![c] = TRUE]
          /\ OrderWrite(c, AddEntry(c, via, nextId, newOrder))
          /\ UNCHANGED toast

\* onSubmit without the guard on the in-flight flag
onSubmitUnguarded(c, input) ==
  /\ c \in mounted
  /\ isConnected[c]
  /\ orderNumberSchema(input)
  /\ createOrder(c, "submit", ToNumber(input))
  /\ UNCHANGED <<baseOrders, baseTTL, now, isConnected, recentLimit, displayRoomId, tree, mounted, cursor, loaded,
                 lastDeletedOrder, serverTimeOffset, currentTTL,
                 dialogSubmitting, showTTLDialog, displayVars>>

\* handleSubmit(onSubmit): the form calls onSubmit with data the schema accepts
onSubmit(c, input) ==
  /\ c \in mounted
  /\ isConnected[c]
  /\ orderNumberSchema(input)
  /\ IF isSubmitting[c]
     THEN UNCHANGED <<log, nextId, failing, outbox, isSubmitting, recentOrders,
                      recommendedNumbers, toast>>
     ELSE createOrder(c, "submit", ToNumber(input))
  /\ UNCHANGED <<baseOrders, baseTTL, now, isConnected, recentLimit, displayRoomId, tree, mounted, cursor, loaded,
                 lastDeletedOrder, serverTimeOffset, currentTTL,
                 dialogSubmitting, showTTLDialog, displayVars>>

\* a click on the i-th recommended number button
handleSelectRecommendedNumber(c, i) ==
  /\ c \in mounted
  /\ i \in 1..Len(recommendedNumbers[c])
  /\ IF isSubmitting[c]
     THEN UNCHANGED <<log, nextId, failing, outbox, isSubmitting, recentOrders,
                      recommendedNumbers, toast>>
     ELSE createOrder(c, "recommend", recommendedNumbers[c][i])
  /\ UNCHANGED <<baseOrders, baseTTL, now, isConnected, recentLimit, displayRoomId, tree, mounted, cursor, loaded,
                 lastDeletedOrder, serverTimeOffset, currentTTL,
                 dialogSubmitting, showTTLDialog, displayVars>>

\* handleUndo without the guard on the buffer
handleUndoUnguarded(c) ==
  /\ c \in mounted
  /\ isConnected[c]
  /\ OrderWrite(c, AddEntry(c, "undo", nextId, lastDeletedOrder[c]))
  /\ UNCHANGED <<baseOrders, baseTTL, now, isConnected, recentLimit, displayRoomId, tree, mounted, cursor, loaded, isSubmitting,
                 lastDeletedOrder, serverTimeOffset, currentTTL,
                 dialogSubmitting, showTTLDialog, toast, displayVars>>

\* the Undo button: push the buffered snapshot as a new child
handleUndo(c) ==
  /\ c \in mounted
  /\ isConnected[c]
  /\ IF lastDeletedOrder[c] = Null
     THEN UNCHANGED <<log, nextId, failing, outbox, recentOrders, recommendedNumbers,
                      toast>>
     ELSE IF lastDeletedOrder[c].expiresAt = Undefined
     THEN \* push() refuses a value holding undefined: the catch block runs
          /\ toast' = [toast EXCEPT ![c] = "undoFailed"]
          /\ UNCHANGED <<log, nextId, failing, outbox, recentOrders, recommendedNumbers>>
     ELSE /\ OrderWrite(c, AddEntry(c, "undo", nextId, lastDeletedOrder[c]))
          /\ UNCHANGED toast
  /\ UNCHANGED <<baseOrders, baseTTL, now, isConnected, recentLimit, displayRoomId, tree, mounted, cursor, loaded, isSubmitting,
                 lastDeletedOrder, serverTimeOffset, currentTTL,
                 dialogSubmitting, showTTLDialog, displayVars>>

\* handleDeleteOrder that fills the buffer only when it is empty
handleDeleteOrderKeepFirst(c, i) ==
  /\ c \in mounted
  /\ isConnected[c]
  /\ i \in 1..Len(recentOrders[c])
  /\ LET orderToDelete == recentOrders[c][i]
     IN /\ lastDeletedOrder' = [lastDeletedOrder EXCEPT ![c] =
             IF @ # Null THEN @
             ELSE [number |-> orderToDelete.number,
                   createdAt |-> orderToDelete.createdAt,
                   expiresAt |-> orderToDelete.expiresAt,
                   status |-> orderToDelete.status]]
        /\ OrderWrite(c, DelEntry(c, "delete", orderToDelete.id))
  /\ UNCHANGED <<baseOrders, baseTTL, now, isConnected, recentLimit, displayRoomId, tree, mounted, cursor, loaded, isSubmitting,
                 serverTimeOffset, currentTTL, dialogSubmitting, showTTLDialog, toast,
                 displayVars>>

\* the delete button of the i-th order listed
handleDeleteOrder(c, i) ==
  /\ c \in mounted
  /\ isConnected[c]
  /\ i \in 1..Len(recentOrders[c])
  /\ LET orderToDelete == recentOrders[c][i]
     IN /\ lastDeletedOrder' = [lastDeletedOrder EXCEPT ![c] =
             [number |-> orderToDelete.number,
              createdAt |-> orderToDelete.createdAt,
              expiresAt |-> orderToDelete.expiresAt,
              status |-> orderToDelete.status]]
        /\ OrderWrite(c, DelEntry(c, "delete", orderToDelete.id))
  /\ UNCHANGED <<baseOrders, baseTTL, now, isConnected, recentLimit, displayRoomId, tree, mounted, cursor, loaded, isSubmitting,
                 serverTimeOffset, currentTTL, dialogSubmitting, showTTLDialog, toast,
                 displayVars>>

\* handleTTLChange that also gives the room's orders the new lifetime
handleTTLChangeRetro(c, ttlMinutes) ==
  /\ c \in mounted
  /\ ~dialogSubmitting[c]
  /\ ttlMinutes # Round(currentTTL[c], MsPerMinute)
  /\ dialogSubmitting' = [dialogSubmitting EXCEPT ![c] = TRUE]
  /\ showTTLDialog' = [showTTLDialog EXCEPT ![c] = TRUE]
  /\ LET ttlMs == ttlMinutes * 60 * 1000
     IN \/ /\ Accepted(c, TTLEntry(c, "setTTL", ttlMs))
           /\ baseOrders' = {[o EXCEPT !.expiresAt = o.createdAt + ttlMs] :
                               o \in baseOrders}
           /\ currentTTL' = [currentTTL EXCEPT ![c] = ttlMs]
           /\ loaded' = [loaded EXCEPT ![c] = @ \cup {"ttl"}]
        \/ /\ Rejected(c, "setTTL")
           /\ UNCHANGED <<baseOrders, currentTTL, loaded>>
        \/ /\ Queued(c, TTLEntry(c, "setTTL", ttlMs))
           /\ currentTTL' = [currentTTL EXCEPT ![c] = ttlMs]
           /\ UNCHANGED <<baseOrders, loaded>>
  /\ UNCHANGED <<baseTTL, now, isConnected, recentLimit, displayRoomId, tree, mounted, cursor, isSubmitting,
                 recentOrders, lastDeletedOrder, serverTimeOffset,
                 recommendedNumbers, toast, displayVars>>

\* TTLSettingsDialog.handleConfirm calling handleTTLChange(ttlMinutes): the
\* confirm button is enabled when another value than the current is selected
handleTTLChange(c, ttlMinutes) ==
  /\ c \in mounted
  /\ ~dialogSubmitting[c]
  /\ ttlMinutes # Round(currentTTL[c], MsPerMinute)
  /\ dialogSubmitting' = [dialogSubmitting EXCEPT ![c] = TRUE]
  /\ showTTLDialog' = [showTTLDialog EXCEPT ![c] = TRUE]
  /\ LET ttlMs == ttlMinutes * 60 * 1000
     IN \/ /\ Accepted(c, TTLEntry(c, "setTTL", ttlMs))
           \* the writer's own config/ttl listener fires with the written value
           /\ currentTTL' = [currentTTL EXCEPT ![c] = ttlMs]
           /\ loaded' = [loaded EXCEPT ![c] = @ \cup {"ttl"}]
        \/ /\ Rejected(c, "setTTL")
           /\ UNCHANGED <<currentTTL, loaded>>
        \* offline the write is kept, and the listener fires with its value
        \/ /\ Queued(c, TTLEntry(c, "setTTL", ttlMs))
           /\ currentTTL' = [currentTTL EXCEPT ![c] = ttlMs]
           /\ UNCHANGED loaded
  /\ UNCHANGED <<baseOrders, baseTTL, now, isConnected, recentLimit, displayRoomId, tree, mounted, cursor, isSubmitting,
                 recentOrders, lastDeletedOrder, serverTimeOffset,
                 recommendedNumbers, toast, displayVars>>

\* .info/connected turns false: the connection of the controller is lost
Disconnect(c) ==
  /\ c \in mounted
  /\ isConnected[c]
  /\ isConnected' = [isConnected EXCEPT ![c] = FALSE]
  /\ UNCHANGED <<storeVars, now, recentLimit, displayRoomId, tree, mounted, cursor, loaded,
                 controllerVars, displayVars>>

\* .info/connected turns true: the writes kept while offline are sent to the
\* store
Reconnect(c) ==
  /\ c \in mounted
  /\ ~isConnected[c]
  /\ Len(log) + Len(outbox[c]) <= MaxLog
  /\ isConnected' = [isConnected EXCEPT ![c] = TRUE]
  /\ log' = log \o outbox[c]
  /\ outbox' = [outbox EXCEPT ![c] = <<>>]
  /\ UNCHANGED <<baseOrders, baseTTL, nextId, now, recentLimit, displayRoomId, tree, mounted, cursor,
                 loaded, failing, isSubmitting, recentOrders, lastDeletedOrder,
                 serverTimeOffset, recommendedNumbers, currentTTL,
                 dialogSubmitting, showTTLDialog, toast, displayVars>>

\* ---------------------------------------------------------------- test page
\* Math.floor(Math.random() * 8999) + 1001: the least and the greatest value
TestNumbers == {1001, 9999}

\* addTestData of the test page, its push accepted by the store: a child with
\* number, status and createdAt and without expiresAt.  A refused push changes
\* nothing in the room.
addTestData(orderNumber) ==
  /\ Len(log) < MaxLog
  /\ nextId <= MaxIds
  /\ log' = Append(log, AddEntry("home", "test", nextId,
                                 [number |-> orderNumber, status |-> "ready",
                                  createdAt |-> DateNow("home"),
                                  expiresAt |-> Undefined]))
  /\ nextId' = nextId + 1
  /\ UNCHANGED <<baseOrders, baseTTL, now, isConnected, recentLimit, displayRoomId, tree, mounted,
                 cursor, loaded, controllerVars, displayVars>>

\* -------------------------------------------------------------------- rooms
\* searchParams.get("room") of the pages tried, as the segments ref() splits
\* the path into: two plain ids, and "AB12/orders"
RoomIds == {<<"AB12">>, <<"CD34">>, <<"AB12", "orders">>}

\* the keys push() generates
PushKeys == {"-k1", "-k2"}

\* the values of config/ttl the program writes
TTLValues == {DefaultTTL} \cup {m * MsPerMinute : m \in TTL_OPTIONS}

\* ref(db, `rooms/${roomId}/orders`)
ordersRef(roomId) == <<"rooms">> \o roomId \o <<"orders">>

\* ref(db, `rooms/${roomId}/config/ttl`)
configRef(roomId) == <<"rooms">> \o roomId \o <<"config", "ttl">>

\* the node at q lies at or below p
Below(p, q) == Len(p) <= Len(q) /\ SubSeq(q, 1, Len(p)) = p

\* the keys of the children of rooms/{roomId}/orders: what the orders
\* subscriptions of a client of the room deliver
ChildKeys(roomId) ==
  {n.path[Len(ordersRef(roomId)) + 1] :
     n \in {m \in tree : /\ Below(ordersRef(roomId), m.path)
                         /\ Len(m.path) > Len(ordersRef(roomId))}}

\* set(ref, value): the node and everything below it is replaced
SetAt(path, value) ==
  tree' = {n \in tree : ~Below(path, n.path)} \cup {[path |-> path, value |-> value]}

\* remove(ref)
RemoveAt(path) == tree' = {n \in tree : ~Below(path, n.path)}

\* push(ordersRef, order) of onSubmit, handleSelectRecommendedNumber and
\* handleUndo of a controller opened with roomId
roomPush(roomId) ==
  /\ \E key \in PushKeys :
       /\ \A n \in tree : \A i \in 1..Len(n.path) : n.path[i] # key
       /\ SetAt(ordersRef(roomId) \o <<key>>, "order")
  /\ UNCHANGED <<storeVars, now, isConnected, recentLimit, displayRoomId, mounted, cursor, loaded,
                 controllerVars, displayVars>>

\* remove(orderRef) of handleDeleteOrder and of cleanupExpiredOrders of a page
\* opened with roomId, for a child its orders subscription has delivered
roomRemove(roomId, orderId) ==
  /\ orderId \in ChildKeys(roomId)
  /\ RemoveAt(ordersRef(roomId) \o <<orderId>>)
  /\ UNCHANGED <<storeVars, now, isConnected, recentLimit, displayRoomId, mounted, cursor, loaded,
                 controllerVars, displayVars>>

\* set(configRef, ttl) of handleTTLChange and of the TTL subscription's default
\* of a controller opened with roomId
roomSetTTL(roomId, ttlMs) ==
  /\ [path |-> configRef(roomId), value |-> ttlMs] \notin tree
  /\ SetAt(configRef(roomId), ttlMs)
  /\ UNCHANGED <<storeVars, now, isConnected, recentLimit, displayRoomId, mounted, cursor, loaded,
                 controllerVars, displayVars>>

\* ---------------------------------------------------------- store to client
Min(S) == CHOOSE x \in S : \A y \in S : x <= y

\* the cursors move to cur; the entries every open client has received are
\* folded into the room's data
Compact(cur) ==
  LET live == UNION {ReadersOf(x) : x \in mounted}
      m == Min({cur[r] : r \in live})
  IN /\ baseOrders' = CacheOrders(log, "store", m)
     /\ baseTTL' = CacheTTL(log, "store", m)
     /\ log' = SubSeq(log, m + 1, Len(log))
     /\ cursor' = [r \in Readers |-> IF r \in live THEN cur[r] - m ELSE 0]

\* Resolved with the buffer kept after an undo
ResolvedUndoKept(c, e) ==
  /\ isSubmitting' = [isSubmitting EXCEPT ![c] =
       IF e.via \in {"submit", "recommend"} THEN FALSE ELSE @]
  /\ lastDeletedOrder' = [lastDeletedOrder EXCEPT ![c] =
       IF e.via \in {"submit", "recommend"} THEN Null ELSE @]
  /\ currentTTL' = [currentTTL EXCEPT ![c] = IF e.via = "setTTL" THEN e.ttl ELSE @]
  /\ dialogSubmitting' = [dialogSubmitting EXCEPT ![c] =
       IF e.via = "setTTL" THEN FALSE ELSE @]
  /\ showTTLDialog' = [showTTLDialog EXCEPT ![c] =
       IF e.via = "setTTL" THEN FALSE ELSE @]
  /\ toast' = [toast EXCEPT ![c] = IF e.via = "undo" THEN "undone" ELSE @]
  /\ UNCHANGED <<recentOrders, recommendedNumbers>>

\* the promise of the controller's own write e resolves: the code after await
Resolved(c, e) ==
  /\ isSubmitting' = [isSubmitting EXCEPT ![c] =
       IF e.via \in {"submit", "recommend"} THEN FALSE ELSE @]
  /\ lastDeletedOrder' = [lastDeletedOrder EXCEPT ![c] =
       IF e.via \in {"submit", "recommend", "undo"} THEN Null ELSE @]
  /\ currentTTL' = [currentTTL EXCEPT ![c] = IF e.via = "setTTL" THEN e.ttl ELSE @]
  /\ dialogSubmitting' = [dialogSubmitting EXCEPT ![c] =
       IF e.via = "setTTL" THEN FALSE ELSE @]
  /\ showTTLDialog' = [showTTLDialog EXCEPT ![c] =
       IF e.via = "setTTL" THEN FALSE ELSE @]
  /\ toast' = [toast EXCEPT ![c] =
       CASE e.via = "submit" -> "added"
         [] e.via = "recommend" -> "entered"
         [] e.via = "undo" -> "undone"
         [] e.via = "delete" -> "deleted"
         [] e.via = "setTTL" -> "ttlChanged"
         [] OTHER -> @]
  /\ UNCHANGED <<recentOrders, recommendedNumbers>>

\* Notified with the config/ttl listener left out
NotifiedOrdersOnly(c, e) ==
  /\ IF e.op = "ttl"
     THEN UNCHANGED <<recentOrders, recommendedNumbers>>
     ELSE OrdersListener(c, log, cursor[c] + 1)
  /\ UNCHANGED <<currentTTL, isSubmitting, lastDeletedOrder, dialogSubmitting, showTTLDialog,
                 toast>>

\* a write of another client reaches the controller's listeners
Notified(c, e) ==
  /\ IF e.op = "ttl"
     THEN /\ currentTTL' = [currentTTL EXCEPT ![c] =
               IF CacheTTL(log, c, cursor[c] + 1) # CacheTTL(log, c, cursor[c])
               THEN CacheTTL(log, c, cursor[c] + 1) ELSE @]
          /\ UNCHANGED <<recentOrders, recommendedNumbers>>
     ELSE /\ OrdersListener(c, log, cursor[c] + 1)
          /\ UNCHANGED currentTTL
  /\ UNCHANGED <<isSubmitting, lastDeletedOrder, dialogSubmitting, showTTLDialog, toast>>

\* the controller receives the next entry of the store's log
Receive(c) ==
  /\ c \in mounted
  /\ isConnected[c]
  /\ loaded[c] = {"orders", "ttl"}
  /\ cursor[c] < Len(log)
  /\ Compact([cursor EXCEPT ![c] = @ + 1])
  /\ LET e == log[cursor[c] + 1]
     IN IF e.by = c THEN Resolved(c, e) ELSE Notified(c, e)
  /\ UNCHANGED <<nextId, now, isConnected, recentLimit, displayRoomId, tree, mounted, loaded, failing, outbox, serverTimeOffset,
                 displayVars>>

\* the rejection with the dialog closed as after a success
RejectClosing(c) ==
  /\ c \in mounted
  /\ isConnected[c]
  /\ failing[c] # <<>>
  /\ failing' = [failing EXCEPT ![c] = Tail(@)]
  /\ LET via == Head(failing[c])
     IN /\ isSubmitting' = [isSubmitting EXCEPT ![c] =
             IF via \in {"submit", "recommend"} THEN FALSE ELSE @]
        /\ dialogSubmitting' = [dialogSubmitting EXCEPT ![c] =
             IF via = "setTTL" THEN FALSE ELSE @]
        /\ showTTLDialog' = [showTTLDialog EXCEPT ![c] =
             IF via = "setTTL" THEN FALSE ELSE @]
        /\ toast' = [toast EXCEPT ![c] =
             CASE via \in {"submit", "recommend"} -> "addFailed"
               [] via = "undo" -> "undoFailed"
               [] via = "delete" -> "deleteFailed"
               [] via = "setTTL" -> "ttlFailed"
               [] OTHER -> @]
  /\ UNCHANGED <<storeVars, now, isConnected, recentLimit, displayRoomId, tree, outbox, mounted, cursor, loaded,
                 recentOrders, lastDeletedOrder, serverTimeOffset,
                 recommendedNumbers, currentTTL, displayVars>>

\* the promise of a rejected write rejects: the catch and finally blocks
Reject(c) ==
  /\ c \in mounted
  /\ isConnected[c]
  /\ failing[c] # <<>>
  /\ failing' = [failing EXCEPT ![c] = Tail(@)]
  /\ LET via == Head(failing[c])
     IN /\ isSubmitting' = [isSubmitting EXCEPT ![c] =
             IF via \in {"submit", "recommend"} THEN FALSE ELSE @]
        /\ dialogSubmitting' = [dialogSubmitting EXCEPT ![c] =
             IF via = "setTTL" THEN FALSE ELSE @]
        /\ UNCHANGED showTTLDialog
        /\ toast' = [toast EXCEPT ![c] =
             CASE via \in {"submit", "recommend"} -> "addFailed"
               [] via = "undo" -> "undoFailed"
               [] via = "delete" -> "deleteFailed"
               [] via = "setTTL" -> "ttlFailed"
               [] OTHER -> @]
  /\ UNCHANGED <<storeVars, now, isConnected, recentLimit, displayRoomId, tree, outbox, mounted, cursor, loaded,
                 recentOrders, lastDeletedOrder, serverTimeOffset,
                 recommendedNumbers, currentTTL, displayVars>>

\* ------------------------------------------------------------------ display
\* rooms/{roomId}/orders as the display sees it at cursor k of l: a remove()
\* of the display is applied to its cache until the store's answer arrives
DisplayCache(l, k, gone) == {o \in CacheOrders(l, Display, k) : o.id \notin gone}

\* the list the display's orders callback sets: every child, converted and
\* sorted
SortedOrders(S) == SortOrders({ToDisplayOrder(o) : o \in S}, TRUE)

OrdersOf(l, k) == SortedOrders(DisplayCache(l, k, reaperFailing))

\* the keys in the view of query(ordersRef, limitToLast(50))
WindowWithout(l, k, gone) ==
  {o.id : o \in LimitToLast(DisplayCache(l, k, gone), ChildWindow)}

WindowOf(l, k) == WindowWithout(l, k, reaperFailing)

\* searchParams.get("room") of the display page: no page, the room of the
\* controllers, another room
NoRoom == "null"
ThisRoom == "AB12"
OtherRoom == "CD34"

\* the display page opens: the saved sound setting is loaded, the highlight
\* interval starts, and both orders subscriptions start from the store as it
\* is.  The listens reach the store after the connection handshake, which
\* delivers .info/serverTimeOffset.
Subscribe ==
  /\ Display \notin mounted
  /\ displayRoomId = NoRoom
  /\ displayRoomId' = ThisRoom
  /\ mounted' = mounted \cup {Display}
  /\ cursor' = [cursor EXCEPT !["value"] = Len(log), !["child"] = Len(log)]
  /\ subscribedAt' = nextId
  /\ serverTimeOffset' = [serverTimeOffset EXCEPT ![Display] = 0 - LocalSkew(Display)]
  /\ isSoundEnabled' = IF savedSoundSetting # "null"
                       THEN savedSoundSetting = "true" ELSE isSoundEnabled
  /\ sweepAt' = now + SweepMs
  /\ UNCHANGED <<storeVars, now, isConnected, recentLimit, tree, loaded, failing, outbox, isSubmitting, recentOrders,
                 lastDeletedOrder, recommendedNumbers, currentTTL,
                 dialogSubmitting, showTTLDialog, toast, orders, newOrderIds,
                 initialAddedDoneRef, kickCount, latchedAt, reaperVars,
                 savedSoundSetting, audioVars>>

\* the orders callback adding the delivered children to the list it has
onValueOrdersAppend(l, k) ==
  /\ orders' = orders \o OrdersOf(l, k)
  /\ initialAddedDoneRef' = TRUE
  /\ latchedAt' = IF initialAddedDoneRef THEN latchedAt ELSE nextId

\* onValueOrders with the flag set for a set that holds an order only
onValueOrdersNonEmpty(l, k) ==
  /\ orders' = OrdersOf(l, k)
  /\ initialAddedDoneRef' = (initialAddedDoneRef \/ OrdersOf(l, k) # <<>>)
  /\ latchedAt' = IF initialAddedDoneRef THEN latchedAt ELSE nextId

\* the onValue callback of the orders subscription, given the cache it reads
onValueOrders(l, k) ==
  /\ orders' = OrdersOf(l, k)
  /\ initialAddedDoneRef' = TRUE
  /\ latchedAt' = IF initialAddedDoneRef THEN latchedAt ELSE nextId

\* first full-set callback
ValueLoaded ==
  /\ Display \in mounted
  /\ "value" \notin loaded[Display]
  /\ loaded' = [loaded EXCEPT ![Display] = @ \cup {"value"}]
  /\ onValueOrders(log, cursor["value"])
  /\ UNCHANGED <<storeVars, now, isConnected, recentLimit, displayRoomId, tree, mounted, cursor, controllerVars, newOrderIds,
                 kickCount, subscribedAt, reaperVars, soundVars, audioVars,
                 timerVars>>

\* the next write reaches the full-set subscription; the callback runs when
\* the write changes the set
ValueNext ==
  /\ Display \in mounted
  /\ "value" \in loaded[Display]
  /\ cursor["value"] < Len(log)
  /\ Compact([cursor EXCEPT !["value"] = @ + 1])
  /\ IF DisplayCache(log, cursor["value"] + 1, reaperFailing)
          # DisplayCache(log, cursor["value"], reaperFailing)
     THEN onValueOrders(log, cursor["value"] + 1)
     ELSE UNCHANGED <<orders, initialAddedDoneRef, latchedAt>>
  /\ UNCHANGED <<nextId, now, isConnected, recentLimit, displayRoomId, tree, mounted, loaded, controllerVars, newOrderIds,
                 kickCount, subscribedAt, reaperVars, soundVars, audioVars,
                 timerVars>>

\* a counter of the run that stops at its bound
Counted(n, bound) == IF n < bound THEN n + 1 ELSE bound

\* useSound.play: nothing while a sound is playing
play ==
  IF isPlayingRef
  THEN UNCHANGED audioVars
  ELSE /\ isPlayingRef' = TRUE
       /\ cues' = Counted(cues, MaxKicks)

\* kickHighlight(orderId) for every key of arrived: the highlight entry, then
\* the sound when it is enabled
kickHighlight(arrived) ==
  /\ newOrderIds' = [id \in DOMAIN newOrderIds \cup arrived |->
       IF id \in arrived THEN DateNow(Display) + HighlightMs ELSE newOrderIds[id]]
  /\ kickCount' = [id \in DOMAIN kickCount |->
       IF id \in arrived THEN Counted(kickCount[id], MaxKicks) ELSE kickCount[id]]
  /\ IF isSoundEnabled /\ arrived # {} THEN play ELSE UNCHANGED audioVars

\* the onChildAdded callback, once for every key of arrived: skipped while
\* the initial load is not done
onChildAdded(arrived) ==
  IF ~initialAddedDoneRef
  THEN UNCHANGED <<newOrderIds, kickCount, audioVars>>
  ELSE kickHighlight(arrived)

\* the child-added subscription left open when the page closes: its callback
\* still runs for the next child
ChildNextOpen ==
  /\ cursor["child"] < Len(log)
  /\ cursor' = [cursor EXCEPT !["child"] = @ + 1]
  /\ kickHighlight(IF log[cursor["child"] + 1].op = "add"
                   THEN {log[cursor["child"] + 1].id} ELSE {})
  /\ UNCHANGED <<storeVars, now, isConnected, recentLimit, displayRoomId, tree, mounted, loaded,
                 controllerVars, orders, initialAddedDoneRef, subscribedAt,
                 latchedAt, reaperVars, soundVars, timerVars>>

\* first events of the child-added subscription: the children in its window
ChildLoaded ==
  /\ Display \in mounted
  /\ "child" \notin loaded[Display]
  /\ loaded' = [loaded EXCEPT ![Display] = @ \cup {"child"}]
  /\ onChildAdded(WindowOf(log, cursor["child"]))
  /\ UNCHANGED <<storeVars, now, isConnected, recentLimit, displayRoomId, tree, mounted, cursor, controllerVars, orders,
                 initialAddedDoneRef, subscribedAt, latchedAt, reaperVars,
                 soundVars, timerVars>>

\* the next write reaches the child-added subscription: an event for every
\* child that enters the window
ChildNext ==
  /\ Display \in mounted
  /\ "child" \in loaded[Display]
  /\ cursor["child"] < Len(log)
  /\ Compact([cursor EXCEPT !["child"] = @ + 1])
  /\ onChildAdded(WindowOf(log, cursor["child"] + 1)
                    \ WindowOf(log, cursor["child"]))
  /\ UNCHANGED <<nextId, now, isConnected, recentLimit, displayRoomId, tree, mounted, loaded, controllerVars, orders,
                 initialAddedDoneRef, subscribedAt, latchedAt, reaperVars,
                 soundVars, timerVars>>

\* ------------------------------------------------------------------- sound
\* the sound button: the flag is flipped and saved
toggleSound ==
  /\ Display \in mounted
  /\ LET newSoundState == ~isSoundEnabled
     IN /\ isSoundEnabled' = newSoundState
        /\ savedSoundSetting' = IF newSoundState THEN "true" ELSE "false"
  /\ UNCHANGED <<storeVars, now, isConnected, recentLimit, displayRoomId, tree, mounted, cursor, loaded, controllerVars, orders,
                 newOrderIds, initialAddedDoneRef, kickCount, subscribedAt,
                 latchedAt, reaperVars, audioVars, timerVars>>

\* the "ended" event of the audio element
soundEnded ==
  /\ isPlayingRef
  /\ isPlayingRef' = FALSE
  /\ UNCHANGED <<storeVars, now, isConnected, recentLimit, displayRoomId, tree, mounted, cursor, loaded, controllerVars, orders,
                 newOrderIds, initialAddedDoneRef, kickCount, subscribedAt,
                 latchedAt, reaperVars, soundVars, cues, timerVars>>

\* the display page is closed: its subscriptions end and the state of the
\* component is lost; the saved sound setting stays
Close ==
  /\ Display \in mounted
  /\ displayRoomId' = NoRoom
  /\ mounted' = mounted \ {Display}
  /\ loaded' = [loaded EXCEPT ![Display] = {}]
  /\ serverTimeOffset' = [serverTimeOffset EXCEPT ![Display] = 0]
  /\ orders' = <<>>
  /\ newOrderIds' = <<>>
  /\ initialAddedDoneRef' = FALSE
  /\ isSoundEnabled' = FALSE
  /\ isPlayingRef' = FALSE
  /\ reaperFailing' = {}
  /\ UNCHANGED <<storeVars, now, isConnected, recentLimit, tree, cursor, failing, outbox, isSubmitting, recentOrders,
                 lastDeletedOrder, recommendedNumbers, currentTTL,
                 dialogSubmitting, showTTLDialog, toast, kickCount, subscribedAt, latchedAt,
                 removeCalls, savedSoundSetting, cues, timerVars>>

\* ------------------------------------------------------------- room change
\* the display page opens on another room: the effects of the page run, and
\* its subscriptions are those of the other room
SubscribeOther ==
  /\ displayRoomId = NoRoom
  /\ Display \notin mounted
  /\ displayRoomId' = OtherRoom
  /\ serverTimeOffset' = [serverTimeOffset EXCEPT ![Display] = 0 - LocalSkew(Display)]
  /\ isSoundEnabled' = IF savedSoundSetting # "null"
                       THEN savedSoundSetting = "true" ELSE isSoundEnabled
  /\ sweepAt' = now + SweepMs
  /\ UNCHANGED <<storeVars, now, isConnected, recentLimit, tree, mounted, cursor, loaded,
                 failing, outbox, isSubmitting, recentOrders, lastDeletedOrder,
                 recommendedNumbers, currentTTL, dialogSubmitting,
                 showTTLDialog, toast, orders, newOrderIds, initialAddedDoneRef,
                 kickCount, subscribedAt, latchedAt, reaperVars,
                 savedSoundSetting, audioVars>>

\* the onValue callback of the orders subscription for the other room, which
\* holds no order: snapshot.exists() is false
ValueLoadedOther ==
  /\ displayRoomId = OtherRoom
  /\ orders' = <<>>
  /\ initialAddedDoneRef' = TRUE
  /\ latchedAt' = IF initialAddedDoneRef THEN latchedAt ELSE nextId
  /\ UNCHANGED <<storeVars, now, isConnected, recentLimit, tree, displayRoomId, mounted, cursor,
                 loaded, controllerVars, newOrderIds, kickCount, subscribedAt,
                 reaperVars, soundVars, audioVars, timerVars>>

\* the room parameter of the open page changes: the effects keyed on roomId
\* are cleaned up (both orders subscriptions end) and run again for the new
\* room; the component, its state and its refs stay
roomIdChanged(newRoomId) ==
  /\ displayRoomId \notin {NoRoom, newRoomId}
  /\ displayRoomId' = newRoomId
  /\ loaded' = [loaded EXCEPT ![Display] = {}]
  /\ IF newRoomId = ThisRoom
     THEN /\ mounted' = mounted \cup {Display}
          /\ cursor' = [cursor EXCEPT !["value"] = Len(log), !["child"] = Len(log)]
          /\ subscribedAt' = nextId
     ELSE /\ mounted' = mounted \ {Display}
          /\ UNCHANGED <<cursor, subscribedAt>>
  /\ UNCHANGED <<storeVars, now, isConnected, recentLimit, tree, controllerVars,
                 orders, newOrderIds, initialAddedDoneRef,
                 kickCount, latchedAt, reaperVars, soundVars, audioVars,
                 timerVars>>

\* ----------------------------------------------------------- expiry reaper
\* the expiry test without the guard on a missing expiresAt
isExpiredUnguarded(order, currentServerTime) ==
  order.expiresAt <= currentServerTime

\* order.expiresAt && order.expiresAt <= currentServerTime
isExpired(order, currentServerTime) ==
  order.expiresAt # Undefined /\ order.expiresAt <= currentServerTime

\* remove(orderRef) for every order of the list once one of them has expired
RemoveEntriesOfList(ids) ==
  IF ids = {} THEN <<>>
  ELSE [i \in 1..Len(orders) |-> DelEntry(Display, "reaper", orders[i].id)]

\* remove(orderRef) for every key of ids, in the order of the list
RECURSIVE RemoveEntries(_)
RemoveEntries(ids) ==
  IF ids = {} THEN <<>>
  ELSE <<DelEntry(Display, "reaper", Min(ids))>> \o RemoveEntries(ids \ {Min(ids)})

\* The setOrders updater of cleanupExpiredOrders: the removes of done are
\* accepted by the store, those of refused will be rejected.  Every remove is
\* applied to the display's cache at once and raises its own listeners.
Reap(validOrders, done, refused) ==
  LET applied == log \o RemoveEntries(done)
      gone == reaperFailing \cup refused
  IN /\ Len(applied) <= MaxLog
     /\ Cardinality(gone) <= MaxFailing
     /\ log' = applied
     /\ reaperFailing' = gone
     /\ removeCalls' = [id \in DOMAIN removeCalls |->
          IF id \in done \cup refused
          THEN Counted(removeCalls[id], MaxRemoves) ELSE removeCalls[id]]
     /\ orders' = IF done \cup refused # {} /\ "value" \in loaded[Display]
                  THEN SortedOrders(DisplayCache(applied, cursor["value"], gone))
                  ELSE validOrders
     /\ IF "child" \in loaded[Display]
        THEN onChildAdded(WindowWithout(applied, cursor["child"], gone)
                            \ WindowOf(log, cursor["child"]))
        ELSE UNCHANGED <<newOrderIds, kickCount, audioVars>>

\* one run of the expiry interval, given the time it takes for the server's
Sweep(currentServerTime) ==
  /\ Display \in mounted
  /\ LET expiredOrderIds ==
           {orders[i].id : i \in {j \in 1..Len(orders) :
                                    isExpired(orders[j], currentServerTime)}}
         validOrders ==
           SelectSeq(orders, LAMBDA order : ~isExpired(order, currentServerTime))
     IN \E done \in SUBSET expiredOrderIds :
          Reap(validOrders, done, expiredOrderIds \ done)
  /\ UNCHANGED <<baseOrders, baseTTL, nextId, now, isConnected, recentLimit, displayRoomId, tree, mounted, cursor, loaded,
                 controllerVars, initialAddedDoneRef, subscribedAt, latchedAt,
                 soundVars, timerVars>>

\* cleanupExpiredOrders reading the local clock alone
cleanupExpiredOrdersLocal == Sweep(DateNow(Display))

cleanupExpiredOrders == Sweep(getServerTime(Display))

\* the rejection of a remove() with the removal left in the display's cache
ReaperRejectedNoRollback ==
  /\ Display \in mounted
  /\ reaperFailing # {}
  /\ UNCHANGED vars

\* the store's rejection of a remove() reaches the display: the removal is
\* taken back from its cache, which raises its listeners; the catch logs
ReaperRejected ==
  /\ Display \in mounted
  /\ \E id \in reaperFailing :
       /\ reaperFailing' = reaperFailing \ {id}
       /\ UNCHANGED removeCalls
       /\ orders' = IF "value" \in loaded[Display]
                    THEN SortedOrders(DisplayCache(log, cursor["value"],
                                                   reaperFailing \ {id}))
                    ELSE orders
       /\ IF "child" \in loaded[Display]
          THEN onChildAdded(WindowWithout(log, cursor["child"], reaperFailing \ {id})
                              \ WindowOf(log, cursor["child"]))
          ELSE UNCHANGED <<newOrderIds, kickCount, audioVars>>
  /\ UNCHANGED <<storeVars, now, isConnected, recentLimit, displayRoomId, tree, mounted, cursor, loaded, controllerVars,
                 initialAddedDoneRef, subscribedAt, latchedAt, soundVars,
                 timerVars>>

\* ------------------------------------------------------ highlight interval
\* the callback of the highlight interval taking the orders whose highlight
\* has ended out of the list as well
sweepHighlightsWithList ==
  /\ Display \in mounted
  /\ now = sweepAt
  /\ LET kept == {i \in DOMAIN newOrderIds : ~(newOrderIds[i] <= DateNow(Display))}
     IN /\ newOrderIds' = [id \in kept |-> newOrderIds[id]]
        /\ orders' = SelectSeq(orders, LAMBDA order :
                                 order.id \notin DOMAIN newOrderIds \ kept)
  /\ sweepAt' = sweepAt + SweepMs
  /\ UNCHANGED <<storeVars, now, isConnected, recentLimit, displayRoomId, tree, mounted, cursor, loaded,
                 controllerVars, initialAddedDoneRef, kickCount, subscribedAt,
                 latchedAt, reaperVars, soundVars, audioVars>>

\* the callback of the highlight interval with every entry deleted
sweepHighlightsAll ==
  /\ Display \in mounted
  /\ now = sweepAt
  /\ newOrderIds' = <<>>
  /\ sweepAt' = sweepAt + SweepMs
  /\ UNCHANGED <<storeVars, now, isConnected, recentLimit, displayRoomId, tree, mounted, cursor, loaded, controllerVars, orders,
                 initialAddedDoneRef, kickCount, subscribedAt, latchedAt,
                 reaperVars, soundVars, audioVars>>

\* the callback of setInterval(..., 1000): the entries whose expiry time has
\* come are deleted
sweepHighlights ==
  /\ Display \in mounted
  /\ now = sweepAt
  /\ newOrderIds' = [id \in {i \in DOMAIN newOrderIds :
                                ~(newOrderIds[i] <= DateNow(Display))} |->
                       newOrderIds[id]]
  /\ sweepAt' = sweepAt + SweepMs
  /\ UNCHANGED <<storeVars, now, isConnected, recentLimit, displayRoomId, tree, mounted, cursor, loaded, controllerVars, orders,
                 initialAddedDoneRef, kickCount, subscribedAt, latchedAt,
                 reaperVars, soundVars, audioVars>>

\* ------------------------------------------------------------------- time
\* the clock moves on, up to the next run of the highlight interval
Elapse ==
  /\ now < HighlightSpan
  /\ Display \in mounted => now < sweepAt
  /\ now' = IF Display \in mounted /\ sweepAt < now + StepMs
            THEN sweepAt ELSE now + StepMs
  /\ UNCHANGED <<storeVars, isConnected, recentLimit, displayRoomId, tree, mounted, cursor, loaded,
                 controllerVars, displayVars>>

Tick ==
  /\ now < MaxTicks * TickMs
  /\ now' = now + TickMs
  /\ UNCHANGED <<storeVars, isConnected, recentLimit, displayRoomId, tree, mounted, cursor, loaded,
                 controllerVars, displayVars>>

\* ------------------------------------------------------------ specification
Clients == Controllers \cup {Display}

\* the room holds the orders of stored when the first page opens
InitRoom(stored) ==
  /\ baseOrders = stored
  /\ baseTTL = Undefined
  /\ log = <<>>
  /\ nextId = Cardinality(stored) + 1
  /\ now = 0
  /\ mounted = {"c1"}
  /\ cursor = [r \in Readers |-> 0]
  /\ loaded = [c \in Clients |-> {}]
  /\ failing = [c \in Controllers |-> <<>>]
  /\ isConnected = [c \in Controllers |-> TRUE]
  /\ tree = {}
  /\ displayRoomId = NoRoom
  /\ outbox = [c \in Controllers |-> <<>>]
  /\ isSubmitting = [c \in Controllers |-> FALSE]
  /\ recentOrders = [c \in Controllers |-> <<>>]
  /\ lastDeletedOrder = [c \in Controllers |-> Null]
  /\ serverTimeOffset = [c \in Clients |-> 0]
  /\ recommendedNumbers = [c \in Controllers |-> <<>>]
  /\ currentTTL = [c \in Controllers |-> 300000]
  /\ dialogSubmitting = [c \in Controllers |-> FALSE]
  /\ showTTLDialog = [c \in Controllers |-> FALSE]
  /\ toast = [c \in Controllers |-> "none"]
  /\ orders = <<>>
  /\ newOrderIds = <<>>
  /\ initialAddedDoneRef = FALSE
  /\ kickCount = [id \in 1..MaxIds |-> 0]
  /\ subscribedAt = 0
  /\ latchedAt = 0
  /\ reaperFailing = {}
  /\ removeCalls = [id \in 1..MaxIds |-> 0]
  /\ isSoundEnabled = FALSE
  /\ savedSoundSetting = "null"
  /\ isPlayingRef = FALSE
  /\ cues = 0
  /\ sweepAt = 0

Init == InitRoom({}) /\ recentLimit = RecentLimit

ControllerStep(c) ==
  \/ Mount(c)
  \/ OffsetCallback(c)
  \/ OrdersLoaded(c)
  \/ TTLLoaded(c)
  \/ \E input \in FormInputs : onSubmit(c, input)
  \/ \E i \in 1..3 : handleSelectRecommendedNumber(c, i)
  \/ handleUndo(c)
  \/ \E i \in 1..RecentLimit : handleDeleteOrder(c, i)
  \/ \E m \in TTL_OPTIONS : handleTTLChange(c, m)
  \/ Receive(c)
  \/ Reject(c)

DisplayStep ==
  \/ Subscribe
  \/ ValueLoaded
  \/ ValueNext
  \/ ChildLoaded
  \/ ChildNext

\* the whole room: two controllers and a display
Next ==
  \/ \E c \in Controllers : ControllerStep(c)
  \/ DisplayStep
  \/ Tick

Spec == Init /\ [][Next]_vars

\* one controller creating orders and changing the TTL while the clock runs
NextCreate ==
  \/ OffsetCallback("c1")
  \/ OrdersLoaded("c1")
  \/ TTLLoaded("c1")
  \/ nextId <= CreateIds /\ \E input \in FormInputs : onSubmit("c1", input)
  \/ nextId <= CreateIds /\ \E i \in 1..3 : handleSelectRecommendedNumber("c1", i)
  \/ \E m \in TTL_OPTIONS : handleTTLChange("c1", m)
  \/ Receive("c1")
  \/ Reject("c1")
  \/ Tick

SpecCreate == Init /\ [][NextCreate]_vars

\* one controller creating, deleting and restoring orders
NextUndo ==
  \/ OrdersLoaded("c1")
  \/ TTLLoaded("c1")
  \/ nextId <= UndoIds /\ \E input \in FormInputs : onSubmit("c1", input)
  \/ nextId <= UndoIds /\ \E i \in 1..3 : handleSelectRecommendedNumber("c1", i)
  \/ nextId <= UndoIds /\ handleUndo("c1")
  \/ \E i \in 1..RecentLimit : handleDeleteOrder("c1", i)
  \/ Receive("c1")
  \/ Reject("c1")

SpecUndo == Init /\ [][NextUndo]_vars

\* one controller creating more orders than its list holds
NextWindow ==
  \/ OrdersLoaded("c1")
  \/ TTLLoaded("c1")
  \/ \E input \in FormInputs : onSubmit("c1", input)
  \/ \E i \in 1..3 : handleSelectRecommendedNumber("c1", i)
  \/ Receive("c1")
  \/ Reject("c1")

SpecWindow == Init /\ [][NextWindow]_vars

\* one controller deleting an order and restoring it
NextRestore ==
  \/ OrdersLoaded("c1")
  \/ TTLLoaded("c1")
  \/ \E input \in FormInputs : onSubmit("c1", input)
  \/ handleUndo("c1")
  \/ \E i \in 1..RecentLimit : handleDeleteOrder("c1", i)
  \/ Receive("c1")
  \/ Reject("c1")

SpecRestore == Init /\ [][NextRestore]_vars

\* one controller creating orders of two numbers, deleting and restoring them
NextSlot ==
  \/ OrdersLoaded("c1")
  \/ TTLLoaded("c1")
  \/ \E input \in FormInputs : onSubmit("c1", input)
  \/ handleSelectRecommendedNumber("c1", 1)
  \/ handleUndo("c1")
  \/ \E i \in 1..RecentLimit : handleDeleteOrder("c1", i)
  \/ Receive("c1")
  \/ Reject("c1")

SpecSlot == Init /\ [][NextSlot]_vars

\* two controllers of one room creating orders while the first changes the TTL
PairStep(c) ==
  \/ Mount(c)
  \/ OrdersLoaded(c)
  \/ TTLLoaded(c)
  \/ nextId <= PairIds /\ \E input \in FormInputs : onSubmit(c, input)
  \/ Receive(c)
  \/ Reject(c)

NextPair ==
  \/ \E c \in Controllers : PairStep(c)
  \/ \E m \in TTL_OPTIONS : handleTTLChange("c1", m)

SpecPair == Init /\ [][NextPair]_vars

\* a display, and one controller creating and deleting orders
NextDisplay ==
  \/ OrdersLoaded("c1")
  \/ TTLLoaded("c1")
  \/ nextId <= DisplayIds /\ \E input \in FormInputs : onSubmit("c1", input)
  \/ nextId <= DisplayIds /\ \E i \in 1..3 : handleSelectRecommendedNumber("c1", i)
  \/ \E i \in 1..RecentLimit : handleDeleteOrder("c1", i)
  \/ Receive("c1")
  \/ Reject("c1")
  \/ DisplayStep

SpecDisplay == Init /\ [][NextDisplay]_vars

\* a display reaping the orders one controller creates while the clock runs
NextReaper ==
  \/ OffsetCallback("c1")
  \/ OrdersLoaded("c1")
  \/ TTLLoaded("c1")
  \/ nextId <= ReaperIds /\ \E input \in FormInputs : onSubmit("c1", input)
  \/ nextId <= ReaperIds /\ handleSelectRecommendedNumber("c1", 1)
  \/ Receive("c1")
  \/ Subscribe
  \/ ValueLoaded
  \/ ValueNext
  \/ cleanupExpiredOrders
  \/ ReaperRejected
  \/ Tick

SpecReaper == Init /\ [][NextReaper]_vars

\* one controller whose connection is lost and comes back
NextOffline ==
  \/ OrdersLoaded("c1")
  \/ TTLLoaded("c1")
  \/ nextId <= OfflineIds /\ \E input \in FormInputs : onSubmit("c1", input)
  \/ nextId <= OfflineIds /\ \E i \in 1..3 : handleSelectRecommendedNumber("c1", i)
  \/ nextId <= OfflineIds /\ handleUndo("c1")
  \/ \E i \in 1..RecentLimit : handleDeleteOrder("c1", i)
  \/ \E m \in TTL_OPTIONS : handleTTLChange("c1", m)
  \/ Receive("c1")
  \/ Reject("c1")
  \/ Disconnect("c1")
  \/ Reconnect("c1")

SpecOffline == Init /\ [][NextOffline]_vars

\* the form inputs tried against the schema: the empty string, "0", "7", "07",
\* "17", a character that is no digit (10), and a string of seven digits
SchemaInputs == {<<>>, <<0>>, <<7>>, <<0, 7>>, <<10>>, <<1, 7>>,
                 <<1, 2, 3, 4, 5, 6, 7>>}

\* a controller whose form is given well-formed and malformed inputs
NextSchema ==
  \/ OrdersLoaded("c1")
  \/ TTLLoaded("c1")
  \/ nextId <= SchemaIds /\ \E input \in SchemaInputs : onSubmit("c1", input)
  \/ \E i \in 1..RecentLimit : handleDeleteOrder("c1", i)
  \/ Receive("c1")
  \/ Reject("c1")

SpecSchema == Init /\ [][NextSchema]_vars

\* the numbers of the order a room holds when the controller page opens
RecommendPool == {500, 996, 997, 998, 999, 1000}

\* a controller opened on a room that is empty or holds one order
InitRecommend ==
  \E stored \in {{}} \cup {{[id |-> 1, number |-> n, createdAt |-> 0,
                              expiresAt |-> DefaultTTL, status |-> "ready"]} :
                            n \in RecommendPool} :
    InitRoom(stored) /\ recentLimit = RecentLimit

NextRecommend ==
  \/ OrdersLoaded("c1")
  \/ TTLLoaded("c1")
  \/ nextId <= RecommendIds /\ \E input \in FormInputs : onSubmit("c1", input)
  \/ nextId <= RecommendIds /\ \E i \in 1..3 : handleSelectRecommendedNumber("c1", i)
  \/ \E i \in 1..RecentLimit : handleDeleteOrder("c1", i)
  \/ Receive("c1")
  \/ Reject("c1")

SpecRecommend == InitRecommend /\ [][NextRecommend]_vars

\* a display whose sound button is used while one controller creates orders
NextSound ==
  \/ OrdersLoaded("c1")
  \/ TTLLoaded("c1")
  \/ nextId <= SoundIds /\ \E input \in FormInputs : onSubmit("c1", input)
  \/ nextId <= SoundIds /\ handleSelectRecommendedNumber("c1", 1)
  \/ Receive("c1")
  \/ DisplayStep
  \/ toggleSound
  \/ soundEnded
  \/ Close

SpecSound == Init /\ [][NextSound]_vars

\* a display whose highlight interval runs while one controller creates orders
NextHighlight ==
  \/ OrdersLoaded("c1")
  \/ TTLLoaded("c1")
  \/ nextId <= HighlightIds /\ \E input \in FormInputs : onSubmit("c1", input)
  \/ Receive("c1")
  \/ DisplayStep
  \/ sweepHighlights
  \/ Elapse

SpecHighlight == Init /\ [][NextHighlight]_vars

\* a run of the expiry interval whose removes the store accepts
cleanupAccepted == cleanupExpiredOrders /\ reaperFailing' = reaperFailing

\* a display reaping the orders one controller creates, some of its removes
\* being refused
NextExpiry ==
  \/ OffsetCallback("c1")
  \/ OrdersLoaded("c1")
  \/ TTLLoaded("c1")
  \/ nextId <= ExpiryIds /\ \E input \in FormInputs : onSubmit("c1", input)
  \/ Receive("c1")
  \/ Reject("c1")
  \/ DisplayStep
  \/ cleanupExpiredOrders
  \/ ReaperRejected
  \/ Tick

\* the store's answers and events reach the open pages; the expiry interval
\* keeps firing, and the store does not refuse the display's removes for ever
FairExpiry ==
  /\ WF_vars(OrdersLoaded("c1"))
  /\ WF_vars(TTLLoaded("c1"))
  /\ WF_vars(Receive("c1"))
  /\ WF_vars(Reject("c1"))
  /\ WF_vars(ValueLoaded)
  /\ WF_vars(ValueNext)
  /\ WF_vars(ChildLoaded)
  /\ WF_vars(ChildNext)
  /\ WF_vars(ReaperRejected)
  /\ SF_vars(cleanupAccepted)

SpecExpiry == Init /\ [][NextExpiry]_vars /\ FairExpiry

\* one controller whose orders query returns one order more than RecentLimit,
\* and the display
InitSort == InitRoom({}) /\ recentLimit = RecentLimit + 1

NextSort ==
  \/ OrdersLoaded("c1")
  \/ TTLLoaded("c1")
  \/ nextId <= SortIds /\ \E input \in FormInputs : onSubmit("c1", input)
  \/ nextId <= SortIds /\ \E i \in 1..3 : handleSelectRecommendedNumber("c1", i)
  \/ Receive("c1")
  \/ Reject("c1")
  \/ Subscribe
  \/ ValueLoaded
  \/ ValueNext
  \/ Tick

SpecSort == InitSort /\ [][NextSort]_vars

\* a display following the orders one controller creates and deletes and the
\* display's own expiry interval removes
NextSync ==
  \/ OffsetCallback("c1")
  \/ OrdersLoaded("c1")
  \/ TTLLoaded("c1")
  \/ nextId <= SyncIds /\ \E input \in FormInputs : onSubmit("c1", input)
  \/ \E i \in 1..RecentLimit : handleDeleteOrder("c1", i)
  \/ Receive("c1")
  \/ Reject("c1")
  \/ Subscribe
  \/ ValueLoaded
  \/ ValueNext
  \/ cleanupExpiredOrders
  \/ ReaperRejected
  \/ Tick

\* the store's answers and events reach the open pages
FairSync ==
  /\ WF_vars(OrdersLoaded("c1"))
  /\ WF_vars(TTLLoaded("c1"))
  /\ WF_vars(Receive("c1"))
  /\ WF_vars(Reject("c1"))
  /\ WF_vars(ValueLoaded)
  /\ WF_vars(ValueNext)
  /\ WF_vars(ReaperRejected)

SpecSync == Init /\ [][NextSync]_vars /\ FairSync

\* one controller submitting, deleting, restoring and changing the TTL in a
\* room to which the test page adds orders
NextTest ==
  \/ OrdersLoaded("c1")
  \/ TTLLoaded("c1")
  \/ nextId <= TestIds /\ \E input \in FormInputs : onSubmit("c1", input)
  \/ \E i \in 1..RecentLimit : handleDeleteOrder("c1", i)
  \/ handleUndo("c1")
  \/ \E m \in TTL_OPTIONS : handleTTLChange("c1", m)
  \/ nextId <= TestIds /\ \E n \in TestNumbers : addTestData(n)
  \/ Receive("c1")
  \/ Reject("c1")

SpecTest == Init /\ [][NextTest]_vars

\* two controllers of one room submitting side by side
RaceStep(c) ==
  \/ Mount(c)
  \/ OrdersLoaded(c)
  \/ TTLLoaded(c)
  \/ nextId <= RaceIds /\ \E input \in FormInputs : onSubmit(c, input)
  \/ Receive(c)
  \/ Reject(c)

NextRace == \E c \in Controllers : RaceStep(c)

SpecRace == Init /\ [][NextRace]_vars

\* a controller deleting the orders it lists while the display's expiry
\* interval removes them as well
NextDup ==
  \/ OffsetCallback("c1")
  \/ OrdersLoaded("c1")
  \/ TTLLoaded("c1")
  \/ nextId <= DupIds /\ \E input \in FormInputs : onSubmit("c1", input)
  \/ nextId <= DupIds /\ handleSelectRecommendedNumber("c1", 1)
  \/ \E i \in 1..(RecentLimit + 1) : handleDeleteOrder("c1", i)
  \/ Receive("c1")
  \/ Reject("c1")
  \/ Subscribe
  \/ ValueLoaded
  \/ ValueNext
  \/ cleanupExpiredOrders
  \/ ReaperRejected
  \/ Tick

SpecDup == InitSort /\ [][NextDup]_vars

\* a display highlighting, sweeping and switching its sound while one
\* controller creates orders
NextLocal ==
  \/ nextId <= LocalIds /\ \E input \in FormInputs : onSubmit("c1", input)
  \/ DisplayStep
  \/ sweepHighlights
  \/ toggleSound
  \/ soundEnded
  \/ Elapse

SpecLocal == Init /\ [][NextLocal]_vars

\* a display that is closed and opened again while one controller creates
\* orders and time passes
NextClose ==
  \/ OffsetCallback("c1")
  \/ OrdersLoaded("c1")
  \/ TTLLoaded("c1")
  \/ nextId <= CloseIds /\ \E input \in FormInputs : onSubmit("c1", input)
  \/ Receive("c1")
  \/ DisplayStep
  \/ cleanupExpiredOrders
  \/ toggleSound
  \/ Close
  \/ Tick

SpecClose == Init /\ [][NextClose]_vars

\* a room that holds one order some of whose fields are absent or unknown when
\* a controller and the display subscribe
InitDefaults ==
  \E number \in {Undefined, 7} : \E createdAt \in {Undefined, SkewMs} :
    \E expiresAt \in {Undefined, DefaultTTL} :
      \E status \in {"", "cooking", "done"} :
        /\ InitRoom({[id |-> 1, number |-> number, createdAt |-> createdAt,
                      expiresAt |-> expiresAt, status |-> status]})
        /\ recentLimit = RecentLimit

NextDefaults ==
  \/ OrdersLoaded("c1")
  \/ TTLLoaded("c1")
  \/ \E i \in 1..RecentLimit : handleDeleteOrder("c1", i)
  \/ Receive("c1")
  \/ Reject("c1")
  \/ Subscribe
  \/ ValueLoaded
  \/ ValueNext

SpecDefaults == InitDefaults /\ [][NextDefaults]_vars

\* pages opened with different room parameters writing to one database
NextRooms ==
  \E roomId \in RoomIds :
    \/ roomPush(roomId)
    \/ \E orderId \in PushKeys \cup {"orders"} : roomRemove(roomId, orderId)
    \/ \E ttlMs \in TTLValues : roomSetTTL(roomId, ttlMs)

SpecRooms == Init /\ [][NextRooms]_vars

\* a display that opens on another room and changes to the room of a
\* controller, and back
NextSwitch ==
  \/ OrdersLoaded("c1")
  \/ TTLLoaded("c1")
  \/ nextId <= SwitchIds /\ \E input \in FormInputs : onSubmit("c1", input)
  \/ Receive("c1")
  \/ SubscribeOther
  \/ ValueLoadedOther
  \/ \E newRoomId \in {ThisRoom, OtherRoom} : roomIdChanged(newRoomId)
  \/ ValueLoaded
  \/ ValueNext
  \/ ChildLoaded
  \/ ChildNext
  \/ toggleSound

SpecSwitch == Init /\ [][NextSwitch]_vars

\* a room that holds an order without an expiry (no expiresAt, or 0), the test
\* page adding more of them, a controller and a display with its reaper
InitPlain ==
  \E expiresAt \in {Undefined, 0} :
    /\ InitRoom({[id |-> 1, number |-> 7, createdAt |-> 0,
                  expiresAt |-> expiresAt, status |-> "ready"]})
    /\ recentLimit = RecentLimit

NextPlain ==
  \/ OffsetCallback("c1")
  \/ OrdersLoaded("c1")
  \/ TTLLoaded("c1")
  \/ nextId <= PlainIds /\ onSubmit("c1", <<0, 7>>)
  \/ nextId <= PlainIds /\ addTestData(1001)
  \/ \E i \in 1..RecentLimit : handleDeleteOrder("c1", i)
  \/ Receive("c1")
  \/ Subscribe
  \/ ValueLoaded
  \/ ValueNext
  \/ cleanupExpiredOrders
  \/ ReaperRejected
  \/ Tick

SpecPlain == InitPlain /\ [][NextPlain]_vars

\* -------------------------------------------------------------- properties
Last(l) == l[Len(l)]

\* the step issues a write the store accepts
Wrote == Len(log') = Len(log) + 1

\* the step is controller c creating an order by a submission
Created(c) ==
  /\ Wrote
  /\ Last(log').op = "add"
  /\ Last(log').by = c
  /\ Last(log').via \in {"submit", "recommend"}

Lifetime(data) == data.expiresAt - data.createdAt

Snapshot(o) == [number |-> o.number, createdAt |-> o.createdAt,
                expiresAt |-> o.expiresAt, status |-> o.status]

\* C1: an order that was in the room when the display subscribed never
\* triggers a highlight, whatever the order of the full-set callback and the
\* child-added events.
C1_ExistingNeverHighlighted ==
  \A id \in 1..MaxIds : id < subscribedAt => kickCount[id] = 0

\* C2: once the latch is set, every order added afterwards is forwarded to
\* kickHighlight exactly once: never twice, and once as soon as the
\* child-added subscription has received it.
C2_AddedAfterLatchOnce ==
  \A id \in 1..MaxIds :
    (initialAddedDoneRef /\ latchedAt <= id /\ id < nextId) =>
      /\ kickCount[id] <= 1
      /\ ("child" \in loaded[Display]
          /\ ~\E p \in Positions(log) :
                p > cursor["child"] /\ log[p].op = "add" /\ log[p].id = id)
         => kickCount[id] = 1

\* C3: kickHighlight is called at most once for an order id in one display
\* session.
C3_NewAtMostOnce ==
  \A id \in 1..MaxIds : kickCount[id] <= 1

\* C4: an order created by a submission has createdAt equal to the
\* controller's local time plus its server offset, and expiresAt equal to
\* createdAt plus the TTL the controller holds at that moment.
C4_StampedWithHeldTTL ==
  [][\A c \in Controllers : Created(c) =>
        /\ Last(log').data.createdAt = now + LocalSkew(c) + serverTimeOffset[c]
        /\ Last(log').data.expiresAt = Last(log').data.createdAt + currentTTL[c]
        /\ Stored(Last(log')) \in RemoteOrders']_vars

C4_Witness ==
  \E o \in RemoteOrders :
    /\ Lifetime(o) = 3 * MsPerMinute
    /\ o.createdAt = TickMs
    /\ currentTTL["c1"] = 5 * MsPerMinute

\* C5: a write of config/ttl (setTTL, or the default on room entry) leaves
\* the room's orders as they are.
C5_TTLWriteKeepsOrders ==
  [][(Wrote /\ Last(log').op = "ttl") =>
        /\ RemoteOrders' = RemoteOrders
        /\ RemoteTTL' = Last(log').ttl]_vars

C5_Witness ==
  /\ RemoteTTL = 3 * MsPerMinute
  /\ \E o \in RemoteOrders : Lifetime(o) = DefaultTTL

\* C6 as stated: once setTTL(m) is in the store, every order created
\* afterwards, by any controller, lives m minutes.
C6_AnyControllerUsesStoredTTL ==
  [][\A c \in Controllers : \A m \in TTL_OPTIONS :
        (Created(c) /\ RemoteTTL = m * MsPerMinute /\ RemoteTTL # DefaultTTL)
          => Lifetime(Last(log').data) = m * MsPerMinute]_vars

\* C6 amended: once setTTL(m) is in the store, every order created
\* afterwards by a controller whose config/ttl subscription holds the
\* stored value lives m minutes.
C6_InformedControllerUsesStoredTTL ==
  [][\A c \in Controllers : \A m \in TTL_OPTIONS :
        (/\ Created(c)
         /\ RemoteTTL = m * MsPerMinute
         /\ "ttl" \in loaded[c]
         /\ CacheTTL(log, c, cursor[c]) = RemoteTTL)
          => Lifetime(Last(log').data) = m * MsPerMinute]_vars

C6_Witness ==
  /\ toast["c2"] = "none"
  /\ \A p \in Positions(log) : log[p].by = "c2" => log[p].op = "add"
  /\ \E p \in Positions(log) :
       /\ log[p].by = "c2"
       /\ Lifetime(log[p].data) = 3 * MsPerMinute
  /\ RemoteTTL = 3 * MsPerMinute

C8_NoTwoActiveOfOneNumber ==
  \A o1 \in RemoteOrders : \A o2 \in RemoteOrders :
    (o1.id # o2.id /\ o1.expiresAt > now /\ o2.expiresAt > now)
      => o1.number # o2.number

\* C9: a delete buffers the fields of the order it removes; an undo the
\* store accepts adds one order with the buffered fields under a key never
\* used before; the buffer is cleared when that write resolves.
C9_UndoRoundTrip ==
  /\ [](\A o \in RemoteOrders : o.id < nextId)
  /\ [][\A c \in Controllers :
          /\ (\E i \in 1..RecentLimit : handleDeleteOrder(c, i)) =>
               \A o \in RemoteOrders \ RemoteOrders' :
                 lastDeletedOrder'[c] = Snapshot(o)
          /\ (handleUndo(c) /\ Wrote) =>
               \E o \in RemoteOrders' :
                 /\ o.id >= nextId
                 /\ Snapshot(o) = lastDeletedOrder[c]
                 /\ RemoteOrders' = RemoteOrders \cup {o}
          /\ (/\ Receive(c)
              /\ log[cursor[c] + 1].by = c
              /\ log[cursor[c] + 1].via = "undo") =>
               lastDeletedOrder'[c] = Null]_vars

C9_Witness ==
  /\ toast["c1"] = "undone"
  /\ \E o \in RemoteOrders : o.id > 1 /\ o.number = 7 /\ o.createdAt = SkewMs

\* C10: an undo with nothing buffered writes nothing and changes nothing.
C10_EmptyUndoNoOp ==
  [][\A c \in Controllers :
        (handleUndo(c) /\ lastDeletedOrder[c] = Null) =>
          UNCHANGED <<storeVars, failing, recentOrders, recommendedNumbers,
                      lastDeletedOrder, toast>>]_vars

C10_Witness ==
  /\ toast["c1"] = "undone"
  /\ lastDeletedOrder["c1"] = Null
  /\ ~\E p \in Positions(log) : log[p].by = "c1"

\* the undo pushes of controller c whose promise is pending
PendingUndo(c) ==
  {p \in Positions(log) : log[p].by = c /\ log[p].via = "undo"}

\* C11: one delete leads to at most one restored order: after a delete has
\* resolved, two undo pushes of the controller are never in flight without a
\* delete between them.
C11_OneUndoPerDelete ==
  \A c \in Controllers :
    (toast[c] = "deleted" /\ failing[c] = <<>>) =>
      \A p \in PendingUndo(c) : \A q \in PendingUndo(c) :
        p < q => \E r \in Positions(log) :
                   p < r /\ r < q /\ log[r].by = c /\ log[r].op = "del"

\* the order is in the display's list
Listed(order) == \E i \in 1..Len(orders) : orders[i].id = order.id

\* C12: a run of the expiry interval removes no order whose expiresAt is
\* after the server's time, neither from the store nor from the display's
\* list, whatever the clocks of the controller and of the display show.
C12_ReaperKeepsUnexpired ==
  [][cleanupExpiredOrders =>
       /\ \A o \in RemoteOrders : o.expiresAt > now => o \in RemoteOrders'
       /\ \A i \in 1..Len(orders) :
            (orders[i].expiresAt = Undefined \/ orders[i].expiresAt > now)
              => \E j \in 1..Len(orders') : orders'[j] = orders[i]]_vars

C12_Witness ==
  /\ \E p \in Positions(log) : log[p].via = "reaper"
  /\ \E o \in RemoteOrders : o.expiresAt > now /\ o.createdAt < now /\ Listed(o)

InStore(id) == \E o \in RemoteOrders : o.id = id
OnDisplay(id) == \E i \in 1..Len(orders) : orders[i].id = id

\* no order that has expired is in the store or on the display's list
NoExpiredLeft ==
  /\ \A o \in RemoteOrders : o.expiresAt > now
  /\ \A i \in 1..Len(orders) : orders[i].expiresAt = Undefined \/ orders[i].expiresAt > now

\* C13: while the display is subscribed, every order of the store that has
\* expired is eventually in neither the display's list nor the store, also
\* when the store refuses removes of the display
C13_ExpiredEventuallyReaped == (Display \in mounted) ~> NoExpiredLeft

\* an expired order is gone from the list and the store after a remove of it
\* was refused and the next one accepted
C13_Witness ==
  \E id \in 1..MaxIds :
    /\ removeCalls[id] >= 2
    /\ Display \in mounted
    /\ \E p \in Positions(log) : log[p].via = "reaper" /\ log[p].id = id
    /\ ~InStore(id) /\ ~OnDisplay(id)

\* the time on the display's clock since the entry of id was put in newOrderIds
SinceKick(id, entries, clock) == clock - (entries[id] - HighlightMs)

ReadmeHighlightMs == 3000

\* the orders kickHighlight is called for in the step
Kicked == {id \in 1..MaxIds : kickCount'[id] # kickCount[id]}

\* C15: an order that appears is highlighted for 3 seconds, to the period of
\* the highlight interval, and a sound plays when it appears
C15_ThreeSecondsAndSound ==
  [][(\A id \in DOMAIN newOrderIds' :
        SinceKick(id, newOrderIds', now' + LocalSkew(Display))
          <= ReadmeHighlightMs + SweepMs)
     /\ (Kicked # {} => isPlayingRef')]_vars

\* C16: on an open display the sound flag is true when no value was ever
\* saved, and is the saved value otherwise
C16_SoundFlagDefaultsTrue ==
  Display \in mounted =>
    isSoundEnabled = (IF savedSoundSetting = "null" THEN TRUE
                      ELSE savedSoundSetting = "true")

\* C17: with the sound enabled every call of kickHighlight starts a sound,
\* also while a sound is playing; with the sound disabled none starts
C17_OneCuePerArrival ==
  [][/\ (isSoundEnabled /\ cues < MaxKicks) => cues' = cues + Cardinality(Kicked)
     /\ ~isSoundEnabled => cues' = cues]_vars

Range(seq) == {seq[i] : i \in 1..Len(seq)}

\* the numbers 1, 2 and 3 above the number of the first order of view that
\* are at most 999
Proposed(view) ==
  IF view = <<>> THEN {}
  ELSE {m \in {view[1].number + 1, view[1].number + 2, view[1].number + 3} :
          m <= 999}

\* C18: the recommended numbers of a controller are the numbers 1, 2 and 3
\* above the number of the first order of its list that are at most 999, and
\* none when the list is empty
C18_RecommendedNumbers ==
  \A c \in Controllers :
    /\ Range(recommendedNumbers[c]) = Proposed(recentOrders[c])
    /\ Len(recommendedNumbers[c]) = Cardinality(Proposed(recentOrders[c]))

\* the list of a controller starts with order 997 and 998, 999 are recommended
C18_Witness ==
  /\ recentOrders["c1"] # <<>>
  /\ recentOrders["c1"][1].number = 997
  /\ recommendedNumbers["c1"] = <<998, 999>>

\* C20: an order pushed by a submission of the form has a number in
\* 1..999999
C20_SubmittedNumberInRange ==
  [][(Wrote /\ Last(log').via = "submit")
       => Last(log').data.number \in 1..999999]_vars

\* C19: while a controller is offline no step leaves a write of it waiting
\* for the connection, and none puts a submission or a TTL change in flight
C19_OfflineWritesFailFast ==
  [][\A c \in Controllers :
       (~isConnected[c] /\ ~isConnected'[c]) =>
         /\ outbox'[c] = outbox[c]
         /\ isSubmitting'[c] => isSubmitting[c]
         /\ dialogSubmitting'[c] => dialogSubmitting[c]]_vars

\* C21 as stated: a controller whose config/ttl subscription has delivered
\* holds the value of config/ttl in the store
C21_CurrentTTLEqualsStore ==
  \A c \in Controllers : "ttl" \in loaded[c] => currentTTL[c] = RemoteTTL

\* C21 amended: the first config/ttl callback adopts the value delivered, or
\* adopts 300000 and writes it when none is delivered; a controller that has
\* received every write holds the value of the store when the store has one
C21_AdoptsDeliveredTTL ==
  [][\A c \in Controllers :
       /\ TTLLoaded(c) =>
            IF CacheTTL(log, c, cursor[c]) = Undefined
            THEN /\ currentTTL'[c] = 300000
                 /\ Wrote => (Last(log').op = "ttl" /\ RemoteTTL' = 300000)
            ELSE /\ currentTTL'[c] = CacheTTL(log, c, cursor[c])
                 /\ log' = log
       /\ ("ttl" \in loaded'[c] /\ cursor'[c] = Len(log')
              /\ RemoteTTL' # Undefined)
            => currentTTL'[c] = RemoteTTL']_vars

\* the second controller entered a room whose TTL was 3 minutes and holds it
C21_Witness ==
  /\ "ttl" \in loaded["c2"]
  /\ cursor["c2"] = Len(log)
  /\ currentTTL["c2"] = 3 * MsPerMinute
  /\ RemoteTTL = currentTTL["c2"]
  /\ \A p \in Positions(log) : log[p].by # "c2"

\* C22: a snapshot in the buffer of a controller changes only when an undo
\* of the controller resolves or when the controller deletes an order
C22_BufferOutlivesSubmission ==
  [][\A c \in Controllers :
       (lastDeletedOrder[c] # Null /\ lastDeletedOrder'[c] # lastDeletedOrder[c])
         => \/ \E i \in 1..RecentLimit : handleDeleteOrder(c, i)
            \/ /\ Receive(c)
               /\ log[cursor[c] + 1].by = c
               /\ log[cursor[c] + 1].via = "undo"]_vars

\* C23: a delete puts the snapshot of the order it deletes in the buffer,
\* whatever the buffer held, and an undo pushes what the buffer holds
C23_BufferHoldsLastDeleted ==
  [][\A c \in Controllers :
       /\ \A i \in 1..RecentLimit :
            handleDeleteOrder(c, i) =>
              lastDeletedOrder'[c] = Snapshot(recentOrders[c][i])
       /\ (Wrote /\ Last(log').by = c /\ Last(log').via = "undo")
            => Last(log').data = lastDeletedOrder[c]]_vars

\* two orders were pushed and deleted, the first order of the room last, and
\* the undo pushed the snapshot of that one
C23_Witness ==
  /\ nextId = 4
  /\ \E p \in Positions(log) :
       /\ log[p].op = "del" /\ log[p].id = 1
       /\ p < Len(log)
       /\ log[p + 1].via = "undo"
       /\ log[p + 1].data.number = 7
  /\ Cardinality(RemoteOrders) = 1

\* C24: initialAddedDoneRef is unset before the display subscribes, is set by
\* the first callback of the orders subscription, for an empty room too, by
\* no other step, and stays set while the page is open
C24_LatchSetOnceByFirstSnapshot ==
  [][/\ Display \notin mounted => ~initialAddedDoneRef
     /\ ValueLoaded => (~initialAddedDoneRef /\ initialAddedDoneRef')
     /\ (~initialAddedDoneRef /\ initialAddedDoneRef') => ValueLoaded
     /\ (initialAddedDoneRef /\ ~initialAddedDoneRef') => Close
     /\ (ChildLoaded \/ ChildNext) => UNCHANGED initialAddedDoneRef]_vars

\* the flag is set on a display of an empty room whose child-added
\* subscription has fired
C24_Witness ==
  /\ initialAddedDoneRef
  /\ RemoteOrders = {}
  /\ orders = <<>>
  /\ loaded[Display] = {"value", "child"}

\* the list is in the order the specification gives: createdAt descending,
\* equal createdAt by number descending
InSpecifiedOrder(list) ==
  \A i \in 1..Len(list) : \A j \in 1..Len(list) :
    i < j => \/ list[i].createdAt > list[j].createdAt
             \/ /\ list[i].createdAt = list[j].createdAt
                /\ list[i].number >= list[j].number

\* C25: the local list of every subscribed client, controller or display, is
\* sorted by createdAt descending with ties broken by number descending
C25_ViewsInSpecifiedOrder ==
  /\ \A c \in Controllers : "orders" \in loaded[c] => InSpecifiedOrder(recentOrders[c])
  /\ "value" \in loaded[Display] => InSpecifiedOrder(orders)

ListIds == {orders[i].id : i \in 1..Len(orders)}
DeliveredIds == {o.id : o \in DisplayCache(log, cursor["value"], reaperFailing)}
RemoteIds == {o.id : o \in RemoteOrders}

\* once the full-set subscription has delivered, the display's list holds the
\* ids of the set last delivered, each of them once
ListIsDeliveredSet ==
  "value" \in loaded[Display]
    => ListIds = DeliveredIds /\ Cardinality(ListIds) = Len(orders)

\* C26: after every full-set callback the display's list holds exactly the ids
\* of the delivered set, none missing, none stale, none twice; and a display
\* that stays subscribed comes to list exactly the ids of the store
C26_ListFollowsStore ==
  /\ []ListIsDeliveredSet
  /\ ("value" \in loaded[Display]) ~> (ListIds = RemoteIds)

\* the display lists nothing after the controller deleted the order it listed
C26_Witness ==
  /\ "value" \in loaded[Display]
  /\ cursor["value"] = Len(log)
  /\ orders = <<>>
  /\ RemoteOrders = {}
  /\ lastDeletedOrder["c1"] # Null

\* C27: every order of the room's collection has an expiresAt later than its
\* createdAt, whatever was submitted, restored, configured or added as test
\* data
C27_ExpiresAfterCreated ==
  \A o \in RemoteOrders : o.expiresAt # Undefined /\ o.expiresAt > o.createdAt

\* C28: a submission passes the duplicate check whenever the submitting
\* controller's own list lacks the number, whatever the room holds: the form
\* then issues the push, which the store accepts or refuses.  Two controllers
\* that have not received each other's order so both create the same number.
C28_GuardReadsOwnListOnly ==
  [][\A c \in Controllers : \A input \in FormInputs :
        (/\ onSubmit(c, input)
         /\ ~isSubmitting[c]
         /\ \A i \in 1..Len(recentOrders[c]) :
              recentOrders[c][i].number # ToNumber(input))
          => \/ Created(c) /\ Last(log').data.number = ToNumber(input)
             \/ failing'[c] # failing[c]]_vars

\* the room holds two unexpired orders of one number, pushed by different
\* controllers
C28_Witness ==
  \E p \in Positions(log) : \E q \in Positions(log) :
    /\ log[p].op = "add" /\ log[q].op = "add"
    /\ log[p].by = "c1" /\ log[q].by = "c2"
    /\ log[p].data.number = log[q].data.number
    /\ log[p].data.expiresAt > now /\ log[q].data.expiresAt > now
    /\ InStore(log[p].id) /\ InStore(log[q].id)

\* the orders the step takes out of the room's collection
Removed == RemoteOrders \ RemoteOrders'

\* the step issues a remove of id which the store accepts although the order
\* is no longer in the room's collection
DuplicateRemove(id) ==
  /\ Len(log') > Len(log)
  /\ SubSeq(log', 1, Len(log)) = log
  /\ \E p \in (Len(log) + 1)..Len(log') : log'[p].op = "del" /\ log'[p].id = id
  /\ ~InStore(id)

\* C29: a delete of an order another client has deleted already leaves the
\* room's collection as it is; a staff delete removes at most the order of its
\* row and a run of the expiry interval at most the expired orders of the
\* display's list; the delete that came second resolves like any other, with
\* the success toast and no failure
C29_DuplicateDeletesBenign ==
  [][/\ \A id \in 1..MaxIds :
         (DuplicateRemove(id) /\ Len(log') = Len(log) + 1)
           => RemoteOrders' = RemoteOrders
     /\ \A c \in Controllers : \A i \in 1..(RecentLimit + 1) :
         handleDeleteOrder(c, i)
           => \A o \in Removed : o.id = recentOrders[c][i].id
     /\ cleanupExpiredOrders
           => \A o \in Removed :
                /\ isExpired(ToOrder(o), getServerTime(Display))
                /\ OnDisplay(o.id)
     /\ \A c \in Controllers :
         (/\ Receive(c)
          /\ log[cursor[c] + 1].by = c
          /\ log[cursor[c] + 1].op = "del")
           => toast'[c] = "deleted" /\ failing'[c] = failing[c]]_vars

\* the controller's delete of an order the display's expiry interval had
\* removed already has resolved, and the other order is still in the room
C29_Witness ==
  /\ toast["c1"] = "deleted"
  /\ cursor["c1"] = Len(log)
  /\ \E id \in 1..MaxIds :
       /\ removeCalls[id] >= 1
       /\ id \notin reaperFailing
       /\ ~InStore(id)
       /\ \E p \in Positions(log) : \E q \in Positions(log) :
            /\ p < q
            /\ log[p].op = "del" /\ log[p].id = id /\ log[p].by = Display
            /\ log[q].op = "del" /\ log[q].id = id /\ log[q].by = "c1"
  /\ Cardinality(RemoteOrders) = 1

\* the step is one of the display's highlight and sound operations: an arrival
\* classified (and highlighted), the highlight entries swept, the sound
\* switched, the cue ended
LocalStep ==
  \/ ChildLoaded
  \/ ChildNext
  \/ sweepHighlights
  \/ toggleSound
  \/ soundEnded

\* C30: classifying an arrival, inserting a highlight entry, sweeping the
\* highlight entries and switching the sound write nothing to the room and
\* leave the display's list alone; the highlight and sound state changes in
\* the display's own steps only
C30_HighlightAndSoundAreLocal ==
  [][/\ LocalStep =>
          /\ RemoteOrders' = RemoteOrders
          /\ RemoteTTL' = RemoteTTL
          /\ Len(log') <= Len(log)
          /\ orders' = orders
          /\ UNCHANGED <<nextId, failing, outbox, reaperFailing, removeCalls>>
     /\ (newOrderIds' # newOrderIds \/ isSoundEnabled' # isSoundEnabled)
          => (LocalStep \/ Subscribe)]_vars

\* the display lists the order whose highlight it has swept, the sound having
\* been switched on and the cue played
C30_Witness ==
  /\ isSoundEnabled
  /\ cues >= 1
  /\ kickCount[1] >= 1
  /\ DOMAIN newOrderIds = {}
  /\ Len(orders) = 1
  /\ InStore(1)

\* C31: while the display page is closed it removes nothing from the room and
\* highlights and plays nothing, whatever is written to the room
C31_ClosedDisplayIsSilent ==
  [][Display \notin mounted =>
       /\ UNCHANGED <<removeCalls, reaperFailing, kickCount, cues, newOrderIds,
                      isPlayingRef, orders>>
       /\ Wrote => Last(log').by # Display]_vars

\* the display was closed after it highlighted, played and reaped; an order
\* pushed since then is in the room, never highlighted and never reaped
C31_Witness ==
  /\ Display \notin mounted
  /\ kickCount[1] >= 1
  /\ cues >= 1
  /\ removeCalls[1] >= 1
  /\ InStore(2)
  /\ kickCount[2] = 0
  /\ removeCalls[2] = 0

\* C32: when the store refuses a TTL change, the controller's current TTL and
\* the room's config/ttl are what they were, the failure is shown and the
\* dialog stays open and usable, and nothing is written again
C32_FailedTTLChangeSurfaced ==
  [][\A c \in Controllers :
       /\ (Reject(c) /\ Head(failing[c]) = "setTTL") =>
            /\ currentTTL'[c] = currentTTL[c]
            /\ RemoteTTL' = RemoteTTL
            /\ toast'[c] = "ttlFailed"
            /\ showTTLDialog'[c]
            /\ ~dialogSubmitting'[c]
            /\ log' = log
            /\ outbox' = outbox
            /\ failing'[c] = Tail(failing[c])
       /\ \A m \in TTL_OPTIONS :
            (handleTTLChange(c, m) /\ failing'[c] # failing[c]) =>
              /\ currentTTL'[c] = currentTTL[c]
              /\ RemoteTTL' = RemoteTTL
              /\ log' = log]_vars

\* a TTL change of c1 was refused: the dialog is open, the failure shown, and
\* the controller and the room hold the TTL of before
C32_Witness ==
  /\ toast["c1"] = "ttlFailed"
  /\ showTTLDialog["c1"]
  /\ ~dialogSubmitting["c1"]
  /\ failing["c1"] = <<>>
  /\ RemoteTTL = DefaultTTL
  /\ currentTTL["c1"] = DefaultTTL

\* the entry of a client's list shows the stored order o with an absent number
\* as 0, an absent createdAt as 0 and a status that is not recognized as
\* "ready"
Defaulted(entry, o) ==
  /\ entry.number = (IF o.number = Undefined THEN 0 ELSE o.number)
  /\ entry.createdAt = (IF o.createdAt = Undefined THEN 0 ELSE o.createdAt)
  /\ entry.status = (IF isValidOrderStatus(o.status) THEN o.status ELSE "ready")

\* C33: in the list of the display and of every controller, an order of the
\* room with an absent number shows 0, with an absent createdAt 0, and with
\* an unrecognized status "ready"
C33_MalformedDefaultedEverywhere ==
  \A o \in RemoteOrders :
    /\ \A i \in 1..Len(orders) : orders[i].id = o.id => Defaulted(orders[i], o)
    /\ \A c \in Controllers : \A i \in 1..Len(recentOrders[c]) :
         recentOrders[c][i].id = o.id => Defaulted(recentOrders[c][i], o)

\* everything at or below rooms/{roomId}/orders, and rooms/{roomId}/config/ttl
RoomOrders(roomId) == {n \in tree : Below(ordersRef(roomId), n.path)}
RoomTTL(roomId) == {n \in tree : Below(configRef(roomId), n.path)}

\* the step is a write of a page opened with roomId
ActsIn(roomId) ==
  \/ roomPush(roomId)
  \/ \E orderId \in PushKeys \cup {"orders"} : roomRemove(roomId, orderId)
  \/ \E ttlMs \in TTLValues : roomSetTTL(roomId, ttlMs)

\* C34: a write of a page opened with one room parameter leaves the orders
\* and the config/ttl of every other room as they are, so that no child is
\* delivered to, and highlighted by, a display of another room
C34_RoomsIsolated ==
  [][\A a \in RoomIds : \A b \in RoomIds :
       (a # b /\ ActsIn(a)) =>
         /\ RoomOrders(b)' = RoomOrders(b)
         /\ RoomTTL(b)' = RoomTTL(b)
         /\ ChildKeys(b)' = ChildKeys(b)]_vars

\* the buffer of controller c holds the fields of an order of the room
BufferedInStore(c) ==
  /\ lastDeletedOrder[c] # Null
  /\ \E o \in RemoteOrders : Snapshot(ToOrder(o)) = lastDeletedOrder[c]

\* C35: when the store has refused a staff delete, the buffer does not hold
\* the order the delete was aimed at, which is still in the room, and no undo
\* pushes a second copy of an order the room holds
C35_FailedDeleteLeavesNoBuffer ==
  [][\A c \in Controllers :
       /\ (Reject(c) /\ Head(failing[c]) = "delete") => ~BufferedInStore(c)'
       /\ (Wrote /\ Last(log').by = c /\ Last(log').via = "undo")
            => ~BufferedInStore(c)]_vars

\* C36: an undo never pushes an order whose number the controller's list
\* holds at that moment
C36_UndoRespectsDuplicateCheck ==
  [][\A c \in Controllers :
       (Wrote /\ Last(log').by = c /\ Last(log').via = "undo")
         => ~isDuplicate(c, Last(log').data.number)]_vars

\* C37: the default write of a controller entering the room changes no
\* config/ttl the room has: a value set by handleTTLChange remains
C37_DefaultNeverOverwrites ==
  [][(Wrote /\ Last(log').op = "ttl" /\ Last(log').via = "defaultTTL")
       => (RemoteTTL # Undefined => RemoteTTL' = RemoteTTL)]_vars

\* C38: a display that came to the room by a change of the room parameter
\* neither highlights nor sounds for an order that was in the room when it
\* subscribed
C38_SwitchedRoomKeepsExistingQuiet ==
  [][/\ \A id \in 1..MaxIds :
          id < subscribedAt' => kickCount'[id] = kickCount[id]
     /\ cues' # cues =>
          \E id \in 1..MaxIds :
            id >= subscribedAt' /\ kickCount'[id] # kickCount[id]]_vars
\* the submissions of controller c whose push has neither succeeded nor failed
\* at c yet
InFlight(c) ==
  Cardinality({p \in Positions(log) :
                 /\ p > cursor[c]
                 /\ log[p].by = c
                 /\ log[p].via \in {"submit", "recommend"}})
    + Cardinality({p \in 1..Len(failing[c]) :
                     failing[c][p] \in {"submit", "recommend"}})
    + Cardinality({p \in 1..Len(outbox[c]) :
                     outbox[c][p].via \in {"submit", "recommend"}})

\* C39: a controller has at most one submission in flight, its in-flight
\* flag is set exactly while one is, and a submit or a click on a
\* recommendation while the flag is set writes nothing
C39_OneSubmissionInFlight ==
  [][\A c \in Controllers :
       /\ InFlight(c)' <= 1
       /\ isSubmitting'[c] <=> InFlight(c)' = 1
       /\ (/\ isSubmitting[c]
           /\ \/ \E input \in FormInputs : onSubmit(c, input)
              \/ \E i \in 1..3 : handleSelectRecommendedNumber(c, i))
            => UNCHANGED <<storeVars, failing, outbox, isSubmitting>>]_vars

\* a refused submission gave the flag back and the next one is in flight
C39_Witness ==
  /\ isSubmitting["c1"]
  /\ InFlight("c1") = 1
  /\ toast["c1"] = "addFailed"
  /\ \E id \in 1..MaxIds : InStore(id)


\* the orders of the store that carry no expiry
Plain == {o \in RemoteOrders : o.expiresAt \in {Undefined, 0}}

\* C40: the reaper never treats an order stored without an expiresAt, or with
\* expiresAt 0, as expired: no sweep calls remove() for it or takes it from
\* the display's list, and it leaves the store only by a controller's delete
C40_NoExpiryNeverReaped ==
  [][\A o \in Plain :
       /\ removeCalls'[o.id] = removeCalls[o.id]
       /\ (cleanupExpiredOrders /\ OnDisplay(o.id)) => OnDisplay(o.id)'
       /\ o \notin RemoteOrders' =>
            /\ Wrote
            /\ Last(log').op = "del"
            /\ Last(log').via = "delete"
            /\ Last(log').id = o.id]_vars

\* the reaper has removed an expired order while an order without an expiry,
\* created before it, is still in the store and on the display, two ticks on
C40_Witness ==
  /\ now = MaxTicks * TickMs
  /\ \E p \in Positions(log) : log[p].via = "reaper"
  /\ \E o \in Plain : OnDisplay(o.id) /\ removeCalls[o.id] = 0
  /\ \E id \in 1..MaxIds : removeCalls[id] >= 1 /\ ~InStore(id)
====
